---- MODULE Spec2Model ----
(***************************************************************************)
(* Model of the librarian bot's semantic index manager                     *)
(* (bot/src/embeddings.py), SM-2 scheduler and review tracker              *)
(* (bot/src/exam.py) and quiz sessions (bot/src/handlers.py).              *)
(*                                                                         *)
(* Abstractions:                                                           *)
(*  - a vault file is (mtime, size, chunks): chunks is the number of       *)
(*    chunks _chunk_file yields for its current content;                   *)
(*  - a manifest chunk entry keeps rel_path and the mtime of the file      *)
(*    version it was cut from (standing for title/section/text);           *)
(*  - the FAISS IndexIDMap2 is the sequence of the ids of its vectors in   *)
(*    insertion order (add_with_ids accepts an id that is already there;   *)
(*    remove_ids drops every vector that has the id);                      *)
(*  - similarity scores and ease factors are integers in hundredths;       *)
(*  - a date is the number of its day: the "%Y-%m-%d" strings the code     *)
(*    stores and compares are ordered as their days are.                   *)
(***************************************************************************)
EXTENDS Integers, Sequences, FiniteSets, TLC

\* ------------------------------------------------------------------ bounds
MaxChunks == 2
MaxClock == 2
MaxId == 3
MaxEntries == 3
MaxK == 2
MaxFaults == 1
MaxReps == 3
MaxInterval == 6
MaxEase == 270
MaxDay == 1
MaxReviews == 3
MaxQuestions == 3
MaxAnswers == 2
MaxReplyTwice == 60
MaxLines == 3
MaxSteps == 3
MaxUndelivered == 2
MaxTriggers == 3
MaxExecutions == 3

\* ------------------------------------------------------- program constants
EMBEDDING_MODEL == "text-embedding-3-small"
EMBEDDING_DIM == 1536
SCORE_FLOOR == 30
MIN_EASE_FACTOR == 130
DEFAULT_EASE_FACTOR == 250
HISTORY_CAP == 50
MIN_ITEMS_FOR_QUIZ == 1
SKIPPED == -1
MAX_STEP_OUTPUT_CHARS == 12000
MAX_FINAL_OUTPUT_CHARS == 20000

VARIABLES
    vault,          \* file -> [present, mtime, size, chunks]
    now,            \* the clock that stamps mtimes
    manifest_file,  \* .index/semantic/manifest.json: [state, data]
    index_file,     \* .index/semantic/faiss.index: [exists, ids]
    last,           \* the ensure_index call that has just returned (made on
                    \* its own, not inside semantic_search): inputs, outcome,
                    \* the two files as they were before it
    max_ever,       \* the greatest chunk id any call has assigned, or -1
    search,         \* the last semantic_search call: inputs, ranking, results
    faults,         \* interrupted runs and damaged manifests so far
    sm2_pc, sm2_arg, sm2_res,  \* one application of _sm2_update
    today,          \* the date datetime.now() gives
    tracker_file,   \* copilot/exam-tracker.json: [state, data]
    review,         \* the record_review call that has just returned: its
                    \* arguments, its date, the tracker it loaded
    reviews,        \* record_review calls so far
    race,           \* two record_review calls under way at once: where each
                    \* is, what it loaded, the order of the saves
    reviewable,     \* the items get_reviewable_items finds in the vault
    due,            \* the get_due_items call that has just returned
    quiz_sessions,  \* handlers._quiz_sessions: user -> QuizSession
    quiz,           \* the quiz handler that has just returned
    evaluation,     \* the evaluate_answer call that has just returned
    card,           \* the card _extract_card_content has just read
    chain,          \* the execute_chain call under way or just returned
    jobs            \* scheduler._job_locks and the triggers of the jobs

vars == <<vault, now, manifest_file, index_file, last, max_ever, search, faults,
          sm2_pc, sm2_arg, sm2_res, today, tracker_file, review, reviews,
          race, reviewable, due, quiz_sessions, quiz, evaluation, card, chain,
          jobs>>
index_vars ==
    <<vault, now, manifest_file, index_file, last, max_ever, search, faults>>
sm2_vars == <<sm2_pc, sm2_arg, sm2_res>>
tracker_vars == <<today, tracker_file, review, reviews>>
due_vars == <<reviewable, due>>
quiz_vars == <<quiz_sessions, quiz, evaluation>>
other_vars == <<card, chain, jobs>>
exam_vars == <<tracker_vars, race, due_vars, quiz_vars, other_vars>>

\* ----------------------------------------------------------------- helpers
\* One note in each folder _scan_vault_files looks at, in scan order.
ScanOrder == <<"Cards/a.md", "Encounters/b.md">>
Files == {ScanOrder[i] : i \in DOMAIN ScanOrder}
PosOf(f) == CHOOSE i \in DOMAIN ScanOrder : ScanOrder[i] = f
FirstOf(S) == CHOOSE f \in S : \A g \in S : PosOf(f) <= PosOf(g)
Range(s) == {s[i] : i \in DOMAIN s}
Restrict(f, S) == [x \in S |-> f[x]]
MapPut(f, k, v) == [x \in DOMAIN f \cup {k} |-> IF x = k THEN v ELSE f[x]]
EmptyMap == [x \in {} |-> x]
Max2(a, b) == IF a >= b THEN a ELSE b
Min2(a, b) == IF a <= b THEN a ELSE b

NoFile == [present |-> FALSE, mtime |-> 0, size |-> 0, chunks |-> 0]

\* ---------------------------------------------------------------- manifest
DefaultManifest ==
    [model |-> EMBEDDING_MODEL, dim |-> EMBEDDING_DIM, next_id |-> 0,
     files |-> EmptyMap, chunks |-> EmptyMap]

\* _load_manifest: the stored document, or the default when the file is
\* missing or does not parse.
LoadManifest(mf) ==
    IF mf.state = "ok" THEN mf.data ELSE DefaultManifest

\* _scan_vault_files: the files now in Cards/ and Encounters/.
ScanVaultFiles == {f \in Files : vault[f].present}

IdsOf(rec) == Range(rec.chunk_ids)

\* index.remove_ids + manifest["chunks"].pop for every id of cids; removes
\* counts the vectors and chunk entries that were really taken out.
RemoveChunkIds(st, cids) ==
    LET kept == SelectSeq(st.index, LAMBDA x : x \notin cids)
        gone == DOMAIN st.manifest.chunks \cap cids
    IN  [st EXCEPT !.index = kept,
                   !.manifest.chunks = Restrict(@, DOMAIN @ \ cids),
                   !.removes = @ + (Len(st.index) - Len(kept)) + Cardinality(gone)]

\* Lines 200-212: the manifest and index the run works on.
StartRun(force) ==
    LET m0 == LoadManifest(manifest_file)
        reset == force \/ m0.model # EMBEDDING_MODEL \/ m0.dim # EMBEDDING_DIM
    IN  [manifest |-> IF reset THEN DefaultManifest ELSE m0,
         index |-> IF reset THEN <<>>
                   ELSE IF index_file.exists THEN index_file.ids ELSE <<>>,
         removed_count |-> 0, added_count |-> 0, updated_count |-> 0,
         adds |-> 0, removes |-> 0, first_id |-> -1]

RemovalPass_KeepVectors(st) ==
    LET gone == {f \in DOMAIN st.manifest.files : f \notin ScanVaultFiles}
        cids == UNION {IdsOf(st.manifest.files[f]) : f \in gone}
    IN  [st EXCEPT !.manifest.files = Restrict(@, DOMAIN @ \ gone),
                   !.manifest.chunks = Restrict(@, DOMAIN @ \ cids),
                   !.removed_count = Cardinality(gone)]

\* Lines 216-224: files of the manifest that are no longer in the vault.
RemovalPass(st) ==
    LET gone == {f \in DOMAIN st.manifest.files : f \notin ScanVaultFiles}
        cids == UNION {IdsOf(st.manifest.files[f]) : f \in gone}
        st1 == RemoveChunkIds(st, cids)
    IN  [st1 EXCEPT !.manifest.files = Restrict(@, DOMAIN @ \ gone),
                    !.removed_count = Cardinality(gone)]

Changed_OrNotNewer(prev, stat) ==
    prev.mtime <= stat.mtime \/ prev.size # stat.size

\* Line 233: the change test.
Changed(prev, stat) == prev.mtime # stat.mtime \/ prev.size # stat.size

\* Lines 227-238: the files to (re)process.
ToProcess(m) ==
    {f \in ScanVaultFiles :
        f \notin DOMAIN m.files \/ Changed(m.files[f], vault[f])}

\* Lines 233-237: a changed file's old chunks leave the index and the chunks
\* map; its file record stays until the upsert.
ChangePass(st) ==
    LET changed == ToProcess(st.manifest) \cap DOMAIN st.manifest.files
        cids == UNION {IdsOf(st.manifest.files[f]) : f \in changed}
    IN  RemoveChunkIds(st, cids)

FirstFreeId_IndexSize(st) == Len(st.index)

\* Line 265: the id the next chunk gets.
FirstFreeId(st) == st.manifest.next_id

\* Lines 259-283, for the files of todo in scan order (ScanOrder).
RECURSIVE UpsertFiles(_, _)
UpsertFiles(st, todo) ==
    IF todo = {} THEN st
    ELSE LET f == FirstOf(todo)
             n == vault[f].chunks
             first == FirstFreeId(st)
             ids == [i \in 1..n |-> first + i - 1]
             was_existing == f \in DOMAIN st.manifest.files
             chunk == [rel_path |-> f, ver |-> vault[f].mtime]
             rec == [mtime |-> vault[f].mtime, size |-> vault[f].size,
                     chunk_ids |-> ids]
             st2 == [st EXCEPT
                       !.index = @ \o ids,
                       !.manifest.next_id = first + n,
                       !.manifest.chunks =
                           [c \in DOMAIN @ \cup Range(ids) |->
                               IF c \in Range(ids) THEN chunk ELSE @[c]],
                       !.manifest.files = MapPut(@, f, rec),
                       !.adds = @ + n,
                       !.first_id = IF @ = -1 /\ n > 0 THEN first ELSE @,
                       !.updated_count = IF was_existing THEN @ + 1 ELSE @,
                       !.added_count = IF was_existing THEN @ ELSE @ + 1]
         IN  UpsertFiles(st2, todo \ {f})

SumChunks(S) ==
    LET RECURSIVE Sum(_)
        Sum(T) == IF T = {} THEN 0
                  ELSE LET f == FirstOf(T) IN vault[f].chunks + Sum(T \ {f})
    IN  Sum(S)

\* The outcome of one ensure_index(force) run in the current state. env is
\* "no_faiss" (_HAS_FAISS false), "no_key" (settings.openai_api_key empty)
\* or "ok"; embed is the embedding step's outcome: "ok", "empty" (line 255:
\* _embed_texts returned nothing) or "raise" (line 161 raised).
\* outcome: "skipped" (lines 189-195), "aborted" (line 256), "raised" (the
\* exception of line 161 reaches the caller), "persisted" (lines 286-293).
EnsureRun(force, env, embed) ==
    LET st0 == StartRun(force)
        st1 == RemovalPass(st0)
        st2 == ChangePass(st1)
        todo == ToProcess(st1.manifest)
        texts == SumChunks(todo)
        st3 == IF todo # {} /\ texts > 0 THEN UpsertFiles(st2, todo) ELSE st2
        embedded == todo # {} /\ texts > 0
        outcome == IF env # "ok" THEN "skipped"
                   ELSE IF embedded /\ embed = "empty" THEN "aborted"
                   ELSE IF embedded /\ embed = "raise" THEN "raised"
                   ELSE "persisted"
    IN  [outcome |-> outcome,
         embed |-> IF outcome # "skipped" /\ embedded THEN embed ELSE "not_called",
         ret |-> CASE outcome = "skipped" -> <<0, 0, 0>>
                   [] outcome = "aborted" -> <<0, 0, st1.removed_count>>
                   [] outcome = "raised" -> <<-1, -1, -1>>
                   [] OTHER -> <<st3.added_count, st3.updated_count,
                                 st3.removed_count>>,
         manifest |-> st3.manifest,
         index |-> st3.index,
         adds |-> IF outcome = "persisted" THEN st3.adds ELSE 0,
         removes |-> IF outcome = "skipped" THEN 0
                     ELSE IF outcome = "persisted" THEN st3.removes
                     ELSE st2.removes,
         first_id |-> IF outcome = "persisted" THEN st3.first_id ELSE -1]

NoCall ==
    [op |-> "none", force |-> FALSE, env |-> "ok",
     embed |-> "not_called", outcome |-> "none", ret |-> <<0, 0, 0>>,
     adds |-> 0, removes |-> 0, first_id |-> -1, prev_max |-> -1,
     streak |-> 0, after_crash |-> FALSE,
     pre_index |-> [exists |-> FALSE, ids |-> <<>>],
     pre_manifest |-> [state |-> "missing", data |-> DefaultManifest]]

\* An interrupted run has not yet been followed by a run that persisted.
CrashPending ==
    \/ last.outcome = "interrupted"
    \/ (last.after_crash /\ last.outcome # "persisted")

NoSearch ==
    [op |-> "none", top_k |-> 0, env |-> "ok", outcome |-> "none",
     raw |-> <<>>, results |-> <<>>]

CallRecord(force, env, r, op) ==
    [op |-> op, force |-> force /\ env = "ok", env |-> env,
     embed |-> r.embed, outcome |-> r.outcome, ret |-> r.ret,
     adds |-> r.adds, removes |-> r.removes, first_id |-> r.first_id,
     prev_max |-> max_ever,
     streak |-> IF r.outcome = "persisted"
                THEN (IF last.op = "ensure_index" /\ last.outcome = "persisted"
                      THEN 2 ELSE 1)
                ELSE 0,
     after_crash |-> CrashPending,
     pre_index |-> index_file, pre_manifest |-> manifest_file]

\* ----------------------------------------------------------------- actions
\* A file is written to the vault (created or edited).
WriteFile(f, size, chunks) ==
    /\ search = NoSearch
    /\ now < MaxClock
    /\ now' = now + 1
    /\ vault' = [vault EXCEPT ![f] = [present |-> TRUE, mtime |-> now + 1,
                                      size |-> size, chunks |-> chunks]]
    /\ last' = [NoCall EXCEPT !.after_crash = CrashPending]
    /\ search' = NoSearch
    /\ UNCHANGED <<manifest_file, index_file, max_ever, faults>>
    /\ UNCHANGED <<sm2_vars, exam_vars>>

DeleteFile(f) ==
    /\ search = NoSearch
    /\ vault[f].present
    /\ vault' = [vault EXCEPT ![f] = NoFile]
    /\ last' = [NoCall EXCEPT !.after_crash = CrashPending]
    /\ search' = NoSearch
    /\ UNCHANGED <<now, manifest_file, index_file, max_ever, faults>>
    /\ UNCHANGED <<sm2_vars, exam_vars>>

IndexAfter_AlsoOnAbort(r) ==
    IF r.outcome \in {"persisted", "aborted"}
    THEN [exists |-> TRUE, ids |-> r.index]
    ELSE index_file

\* Lines 286-288: what a run leaves in the two files.
IndexAfter(r) ==
    IF r.outcome = "persisted" THEN [exists |-> TRUE, ids |-> r.index]
    ELSE index_file

ManifestAfter(r) ==
    IF r.outcome = "persisted" THEN [state |-> "ok", data |-> r.manifest]
    ELSE manifest_file

MaxEverAfter(r) ==
    IF r.adds > 0 THEN Max2(max_ever, r.manifest.next_id - 1) ELSE max_ever

\* ensure_index(force), whole call. embed is the outcome of the embedding
\* step; when the call does not reach that step it is taken to be "ok".
EnsureIndex(force, env, embed) ==
    LET r == EnsureRun(force, env, embed)
    IN  /\ search = NoSearch
        /\ r.embed = "not_called" => embed = "ok"
        /\ r.outcome = "persisted" =>
              r.manifest.next_id <= MaxId /\ Len(r.index) <= MaxEntries
        /\ index_file' = IndexAfter(r)
        /\ manifest_file' = ManifestAfter(r)
        /\ last' = CallRecord(force, env, r, "ensure_index")
        /\ max_ever' = MaxEverAfter(r)
        /\ search' = NoSearch
        /\ UNCHANGED <<vault, now, faults>>
        /\ UNCHANGED <<sm2_vars, exam_vars>>

\* ensure_index(force) cut off between line 287 (faiss.write_index) and
\* line 288 (_save_manifest): the index file is written, the manifest is not.
EnsureIndexInterrupted(force) ==
    LET r == EnsureRun(force, "ok", "ok")
    IN  /\ search = NoSearch
        /\ faults < MaxFaults
        /\ faults' = faults + 1
        /\ r.outcome = "persisted"
        /\ r.manifest.next_id <= MaxId
        /\ Len(r.index) <= MaxEntries
        /\ index_file' = [exists |-> TRUE, ids |-> r.index]
        /\ manifest_file' = manifest_file
        /\ last' = [CallRecord(force, "ok", r, "ensure_index") EXCEPT
                        !.outcome = "interrupted", !.ret = <<-1, -1, -1>>,
                        !.streak = 0]
        /\ max_ever' = MaxEverAfter(r)
        /\ search' = NoSearch
        /\ UNCHANGED <<vault, now>>
        /\ UNCHANGED <<sm2_vars, exam_vars>>

\* The manifest file is lost or damaged outside the program; _load_manifest
\* (lines 125-136) then answers with the default.
ManifestDamage(kind) ==
    /\ search = NoSearch
    /\ faults < MaxFaults
    /\ faults' = faults + 1
    /\ manifest_file.state = "ok"
    /\ manifest_file' = [state |-> kind, data |-> DefaultManifest]
    /\ last' = [NoCall EXCEPT !.after_crash = CrashPending]
    /\ search' = NoSearch
    /\ UNCHANGED <<vault, now, index_file, max_ever>>
    /\ UNCHANGED <<sm2_vars, exam_vars>>

\* ------------------------------------------------------------------ search
\* Similarities of the query to the stored vectors, in hundredths.
Scores == {29, 30}

\* The positions of left by falling score (the earlier vector first on a
\* tie).
RECURSIVE RankFrom(_, _)
RankFrom(sc, left) ==
    IF left = {} THEN <<>>
    ELSE LET best == CHOOSE p \in left : \A q \in left :
                        sc[p] > sc[q] \/ (sc[p] = sc[q] /\ p <= q)
         IN  <<best>> \o RankFrom(sc, left \ {best})

\* index.search(q, k) of line 323: the k best (score, id) pairs, best first.
IndexSearch(ids, sc, k) ==
    LET order == RankFrom(sc, DOMAIN ids)
    IN  [i \in 1..k |-> [score |-> sc[order[i]], cid |-> ids[order[i]]]]

KeepHit_FloorExcluded(hit, manifest) ==
    /\ hit.cid # -1
    /\ ~(hit.score <= SCORE_FLOOR)
    /\ hit.cid \in DOMAIN manifest.chunks

\* Lines 328-334: the hits that survive.
KeepHit(hit, manifest) ==
    /\ hit.cid # -1
    /\ ~(hit.score < SCORE_FLOOR)
    /\ hit.cid \in DOMAIN manifest.chunks

\* Lines 326-345.
ResolveHits(raw, manifest) ==
    LET kept == SelectSeq(raw, LAMBDA h : KeepHit(h, manifest))
    IN  [i \in DOMAIN kept |->
            [score |-> kept[i].score, cid |-> kept[i].cid,
             rel_path |-> manifest.chunks[kept[i].cid].rel_path,
             ver |-> manifest.chunks[kept[i].cid].ver]]

\* What semantic_search(query, top_k) does after its own ensure_index()
\* gave r: the outcome, the raw ranking and the results.
SearchRun(top_k, env, r, qembed, sc) ==
    LET idx == IndexAfter(r)
        n == Len(idx.ids)
        outcome == IF env # "ok" THEN "skipped"
                   ELSE IF r.outcome = "raised" THEN "raised"
                   ELSE IF ~idx.exists THEN "no_index"
                   ELSE IF n = 0 THEN "empty_index"
                   ELSE IF qembed = "empty" THEN "no_query_vector"
                   ELSE IF qembed = "raise" THEN "raised"
                   ELSE "searched"
        raw == IF outcome = "searched"
               THEN IndexSearch(idx.ids, sc, Min2(top_k, n))
               ELSE <<>>
    IN  [op |-> "semantic_search", top_k |-> top_k, env |-> env,
         outcome |-> outcome, raw |-> raw,
         results |-> ResolveHits(raw, LoadManifest(ManifestAfter(r)))]

\* semantic_search(query, top_k), whole call (lines 300-345).
SemanticSearch(top_k, env, embed, qembed) ==
    LET r == EnsureRun(FALSE, "ok", embed)
        n == Len(IndexAfter(r).ids)
        searched == env = "ok" /\ r.outcome # "raised" /\ n > 0
                    /\ qembed = "ok"
    IN  /\ search = NoSearch
        /\ r.outcome = "persisted" =>
              r.manifest.next_id <= MaxId /\ Len(r.index) <= MaxEntries
        /\ \E sc \in (IF searched THEN [1..n -> Scores] ELSE {<<>>}) :
              search' = SearchRun(top_k, env, r, qembed, sc)
        /\ IF env = "ok"
           THEN /\ index_file' = IndexAfter(r)
                /\ manifest_file' = ManifestAfter(r)
                /\ last' = [NoCall EXCEPT !.after_crash =
                                CrashPending /\ r.outcome # "persisted"]
                /\ max_ever' = MaxEverAfter(r)
           ELSE UNCHANGED <<index_file, manifest_file, last, max_ever>>
        /\ UNCHANGED <<vault, now, faults>>
        /\ UNCHANGED <<sm2_vars, exam_vars>>

\* The caller takes the results of the search.
SearchReturn ==
    /\ search # NoSearch
    /\ search' = NoSearch
    /\ UNCHANGED <<vault, now, manifest_file, index_file, last, max_ever,
                   faults>>
    /\ UNCHANGED <<sm2_vars, exam_vars>>

\* -------------------------------------------------------------------- SM-2
\* Line 129: the change of the ease factor, in hundredths.
EaseDelta(score) == 10 - (5 - score) * (8 + (5 - score) * 2)

\* Python's round(n / d) for n >= 0: to the nearest, a tie to the even one.
RoundHalfEven(n, d) ==
    LET q == n \div d
        rem == n % d
    IN  IF 2 * rem < d THEN q
        ELSE IF 2 * rem > d THEN q + 1
        ELSE IF q % 2 = 0 THEN q ELSE q + 1

Sm2Update_FailBelowTwo(score, repetitions, ease_factor, interval_days) ==
    IF score < 2
    THEN [repetitions |-> 0,
          ease_factor |-> Max2(MIN_EASE_FACTOR, ease_factor),
          interval_days |-> 1]
    ELSE [repetitions |-> repetitions + 1,
          ease_factor |-> Max2(MIN_EASE_FACTOR, ease_factor + 10),
          interval_days |-> IF repetitions = 0 THEN 1 ELSE 3]

Sm2Update_NoFloor(score, repetitions, ease_factor, interval_days) ==
    IF score < 3
    THEN [repetitions |-> 0, ease_factor |-> ease_factor, interval_days |-> 1]
    ELSE LET new_ease == ease_factor + EaseDelta(score)
             new_interval ==
                 IF repetitions = 0 THEN 1
                 ELSE IF repetitions = 1 THEN 3
                 ELSE Max2(1, RoundHalfEven(interval_days * new_ease, 100))
         IN  [repetitions |-> repetitions + 1, ease_factor |-> new_ease,
              interval_days |-> new_interval]

\* _sm2_update (lines 118-139); ease factors in hundredths.
Sm2Update(score, repetitions, ease_factor, interval_days) ==
    IF score < 3
    THEN [repetitions |-> 0,
          ease_factor |-> Max2(MIN_EASE_FACTOR, ease_factor),
          interval_days |-> 1]
    ELSE LET new_ease == Max2(MIN_EASE_FACTOR, ease_factor + EaseDelta(score))
             new_interval ==
                 IF repetitions = 0 THEN 1
                 ELSE IF repetitions = 1 THEN 3
                 ELSE Max2(1, RoundHalfEven(interval_days * new_ease, 100))
         IN  [repetitions |-> repetitions + 1, ease_factor |-> new_ease,
              interval_days |-> new_interval]

EaseValues == {110, 129, 130, 131, 144, DEFAULT_EASE_FACTOR}

Sm2Inputs ==
    [score : 0..5, repetitions : 0..MaxReps, ease_factor : EaseValues,
     interval_days : 0..MaxInterval]

\* The function is applied to the argument at hand.
Sm2Call ==
    /\ sm2_pc = "ready"
    /\ sm2_res' = Sm2Update(sm2_arg.score, sm2_arg.repetitions,
                            sm2_arg.ease_factor, sm2_arg.interval_days)
    /\ sm2_pc' = "done"
    /\ UNCHANGED sm2_arg
    /\ UNCHANGED <<index_vars, exam_vars>>

\* The result is fed back with the next score.
Sm2Again(score) ==
    /\ sm2_pc = "done"
    /\ sm2_res.repetitions <= MaxReps
    /\ sm2_res.interval_days <= MaxInterval
    /\ sm2_res.ease_factor <= MaxEase
    /\ sm2_arg' = [score |-> score, repetitions |-> sm2_res.repetitions,
                   ease_factor |-> sm2_res.ease_factor,
                   interval_days |-> sm2_res.interval_days]
    /\ sm2_pc' = "ready"
    /\ UNCHANGED sm2_res
    /\ UNCHANGED <<index_vars, exam_vars>>

\* ---------------------------------------------------------- review tracker
\* None, for a date that was never set.
NoDate == -1

\* get_reviewable_items lists the cards first and the encounters after them.
ItemOrder ==
    <<[type |-> "card", title |-> "A"], [type |-> "card", title |-> "B"],
      [type |-> "encounter", title |-> "A"]>>
Items == Range(ItemOrder)

EmptyTracker == [cards |-> EmptyMap, encounters |-> EmptyMap]
NoTrackerFile == [state |-> "missing", data |-> EmptyTracker]

\* load_tracker (lines 91-105): the default for a missing file, for text
\* that is not JSON and for JSON that is not an object.  read_text decodes
\* UTF-8; a UnicodeDecodeError is neither a JSONDecodeError nor an OSError
\* and leaves the function.
LoadTracker(tf) ==
    IF tf.state = "ok" THEN [raised |-> FALSE, data |-> tf.data]
    ELSE IF tf.state = "bad_encoding"
    THEN [raised |-> TRUE, data |-> EmptyTracker]
    ELSE [raised |-> FALSE, data |-> EmptyTracker]

\* Line 148.
SectionOf_EncountersByName(item_type) ==
    IF item_type = "encounter" THEN "encounters" ELSE "cards"

SectionOf(item_type) == IF item_type = "card" THEN "cards" ELSE "encounters"

\* Lines 150-157.
DefaultItem ==
    [last_reviewed |-> NoDate, next_review |-> NoDate,
     ease_factor |-> DEFAULT_EASE_FACTOR, interval_days |-> 0,
     repetitions |-> 0, history |-> <<>>]

LookupItem(tracker, item_type, title) ==
    IF title \in DOMAIN tracker[SectionOf(item_type)]
    THEN tracker[SectionOf(item_type)][title]
    ELSE DefaultItem

CapHistory_DropNewest(h) ==
    IF Len(h) > HISTORY_CAP THEN SubSeq(h, 1, HISTORY_CAP) ELSE h

\* Lines 175-176: the last 50 entries.
CapHistory(h) ==
    IF Len(h) > HISTORY_CAP
    THEN SubSeq(h, Len(h) - HISTORY_CAP + 1, Len(h))
    ELSE h

ReviewedItem_RepsNotRead(item, score, date) ==
    LET new == Sm2Update(score, 0, item.ease_factor, item.interval_days)
    IN  [last_reviewed |-> date,
         next_review |-> date + new.interval_days,
         ease_factor |-> new.ease_factor,
         interval_days |-> new.interval_days,
         repetitions |-> new.repetitions,
         history |->
             CapHistory(Append(item.history, [date |-> date, score |-> score]))]

\* Lines 159-176.  The ease factor is a whole number of hundredths, which
\* round(new_ease, 2) keeps.
ReviewedItem(item, score, date) ==
    LET new == Sm2Update(score, item.repetitions, item.ease_factor,
                         item.interval_days)
    IN  [last_reviewed |-> date,
         next_review |-> date + new.interval_days,
         ease_factor |-> new.ease_factor,
         interval_days |-> new.interval_days,
         repetitions |-> new.repetitions,
         history |->
             CapHistory(Append(item.history, [date |-> date, score |-> score]))]

TrackerPut_FreshTracker(tracker, item_type, title, item) ==
    [EmptyTracker EXCEPT ![SectionOf(item_type)] = MapPut(@, title, item)]

\* Line 178.
TrackerPut(tracker, item_type, title, item) ==
    [tracker EXCEPT ![SectionOf(item_type)] = MapPut(@, title, item)]

\* record_review (lines 142-180) on the tracker file tf.
RecordReviewRun(tf, item_type, title, score, date) ==
    LET ld == LoadTracker(tf)
        item == ReviewedItem(LookupItem(ld.data, item_type, title), score, date)
    IN  IF ld.raised
        THEN [raised |-> TRUE, file |-> tf, item |-> DefaultItem]
        ELSE [raised |-> FALSE,
              file |-> [state |-> "ok",
                        data |-> TrackerPut(ld.data, item_type, title, item)],
              item |-> item]

NoReview ==
    [op |-> "none", item_type |-> "card", title |-> "A", score |-> 0,
     date |-> 0, outcome |-> "none", pre |-> NoTrackerFile,
     ret |-> DefaultItem]

RecordReview(item_type, title, score) ==
    /\ reviews < MaxReviews
    /\ LET r == RecordReviewRun(tracker_file, item_type, title, score, today)
       IN  /\ tracker_file' = r.file
           /\ review' = [op |-> "record_review", item_type |-> item_type,
                         title |-> title, score |-> score, date |-> today,
                         outcome |-> IF r.raised THEN "raised" ELSE "saved",
                         pre |-> tracker_file, ret |-> r.item]
    /\ reviews' = reviews + 1
    /\ UNCHANGED today
    /\ UNCHANGED <<race, due_vars, quiz_vars>>
    /\ UNCHANGED <<index_vars, sm2_vars, other_vars>>

\* Midnight passes.
NextDay ==
    /\ today < MaxDay
    /\ today' = today + 1
    /\ UNCHANGED <<tracker_file, review, reviews>>
    /\ UNCHANGED <<race, due_vars, quiz_vars>>
    /\ UNCHANGED <<index_vars, sm2_vars, other_vars>>

\* The tracker file is lost, or left as text that is not JSON, as JSON that
\* is not an object, or as bytes that are not UTF-8.
TrackerDamage(kind) ==
    /\ faults < MaxFaults
    /\ faults' = faults + 1
    /\ tracker_file' = [state |-> kind, data |-> EmptyTracker]
    /\ review' = NoReview
    /\ UNCHANGED <<today, reviews>>
    /\ UNCHANGED <<race, due_vars, quiz_vars>>
    /\ UNCHANGED <<vault, now, manifest_file, index_file, last, max_ever,
                   search>>
    /\ UNCHANGED <<sm2_vars, other_vars>>

\* The item a run of reviews made on day 0 leaves when the last of them
\* failed: repetitions 0, interval 1, the ease factor the run arrived at.
SeedItem(scores, ease) ==
    [last_reviewed |-> 0, next_review |-> 1, ease_factor |-> ease,
     interval_days |-> 1, repetitions |-> 0,
     history |-> [i \in DOMAIN scores |-> [date |-> 0, score |-> scores[i]]]]

FailRun(n) == [i \in 1..n |-> i % 3]

\* Earlier reviews of card A: failed ones up to the history cap, which leave
\* the default ease factor, or nine reviews with score 3, which bring the
\* ease factor down to 1.3, and a failed one.
SeedItems ==
    {SeedItem(FailRun(HISTORY_CAP - 1), DEFAULT_EASE_FACTOR),
     SeedItem(FailRun(HISTORY_CAP), DEFAULT_EASE_FACTOR),
     SeedItem(<<3, 3, 3, 3, 3, 3, 3, 3, 3, 0>>, MIN_EASE_FACTOR)}

SeedTrackers ==
    {NoTrackerFile} \cup
    {[state |-> "ok", data |-> TrackerPut(EmptyTracker, "card", "A", item)] :
         item \in SeedItems}

\* ---------------------------------------------------------------- due items
\* Lines 394-407: the reviewable items without a tracker record, and those
\* whose next_review is today or earlier, in the order of the listing.
DueEntry(tracker, item, date) ==
    LET section == tracker[SectionOf(item.type)]
    IN  IF item.title \notin DOMAIN section
        THEN <<[type |-> item.type, title |-> item.title, priority |-> 0,
                never_reviewed |-> TRUE,
                ease_factor |-> DEFAULT_EASE_FACTOR]>>
        ELSE IF section[item.title].next_review <= date
        THEN <<[type |-> item.type, title |-> item.title, priority |-> 1,
                never_reviewed |-> FALSE,
                ease_factor |-> section[item.title].ease_factor]>>
        ELSE <<>>

RECURSIVE DueFrom(_, _, _, _)
DueFrom(tracker, listed, date, i) ==
    IF i > Len(ItemOrder) THEN <<>>
    ELSE (IF ItemOrder[i] \in listed
          THEN DueEntry(tracker, ItemOrder[i], date) ELSE <<>>)
         \o DueFrom(tracker, listed, date, i + 1)

\* The sort key of line 410.
KeyLeq(x, y) ==
    \/ x.priority < y.priority
    \/ x.priority = y.priority /\ x.ease_factor <= y.ease_factor

\* list.sort is stable: x goes behind every entry whose key is not greater.
RECURSIVE InsertByKey(_, _)
InsertByKey(sorted, x) ==
    IF sorted = <<>> THEN <<x>>
    ELSE IF KeyLeq(sorted[Len(sorted)], x) THEN Append(sorted, x)
    ELSE Append(InsertByKey(SubSeq(sorted, 1, Len(sorted) - 1), x),
                sorted[Len(sorted)])

SortDue_ListingOrder(entries) == entries

RECURSIVE SortDue(_)
SortDue(entries) ==
    IF entries = <<>> THEN <<>>
    ELSE InsertByKey(SortDue(SubSeq(entries, 1, Len(entries) - 1)),
                     entries[Len(entries)])

\* get_due_items (lines 387-411).
DueItems(tracker, listed, date) == SortDue(DueFrom(tracker, listed, date, 1))

NoDue ==
    [op |-> "none", date |-> 0, tracker |-> EmptyTracker, listed |-> {},
     result |-> <<>>]

GetDueItems ==
    /\ due = NoDue
    /\ ~LoadTracker(tracker_file).raised
    /\ due' = [op |-> "get_due_items", date |-> today,
               tracker |-> LoadTracker(tracker_file).data,
               listed |-> reviewable,
               result |-> DueItems(LoadTracker(tracker_file).data, reviewable,
                                   today)]
    /\ UNCHANGED reviewable
    /\ UNCHANGED <<tracker_vars, race, quiz_vars>>
    /\ UNCHANGED <<index_vars, sm2_vars, other_vars>>

\* The caller is done with the list.
DueReturn ==
    /\ due # NoDue
    /\ due' = NoDue
    /\ UNCHANGED reviewable
    /\ UNCHANGED <<tracker_vars, race, quiz_vars>>
    /\ UNCHANGED <<index_vars, sm2_vars, other_vars>>

\* Notes come and go: the vault now yields the items of listed.
SetReviewable(listed) ==
    /\ due = NoDue
    /\ listed # reviewable
    /\ reviewable' = listed
    /\ UNCHANGED due
    /\ UNCHANGED <<tracker_vars, race, quiz_vars>>
    /\ UNCHANGED <<index_vars, sm2_vars, other_vars>>

\* ------------------------------------------------------------ quiz sessions
Users == {1, 2}
\* User 1 sends the commands and the answers; user 2 has left a quiz of two
\* questions after skipping the first one and sends nothing more.
Actors == {1}

\* generate_connection_questions gives every question this source.
Conexiones == [type |-> "connection", title |-> "Conexiones"]

\* QuizSession (exam.py lines 60-81); a question is its source and its place.
NoSession ==
    [questions |-> <<>>, current_index |-> 0, scores |-> <<>>,
     answers |-> <<>>, active |-> FALSE]

NewSession(source, n) ==
    [questions |-> [i \in 1..n |-> [source_type |-> source.type,
                                    source_title |-> source.title,
                                    number |-> i]],
     current_index |-> 0, scores |-> <<>>, answers |-> <<>>, active |-> TRUE]

IsComplete(s) == s.current_index >= Len(s.questions)

\* Lines 1282-1285: what the summary counts.
RECURSIVE ScoredTotal(_)
ScoredTotal(scores) ==
    IF scores = <<>> THEN 0
    ELSE (IF Head(scores) >= 0 THEN Head(scores) ELSE 0)
         + ScoredTotal(Tail(scores))

ScoredCount_SkipsToo(scores) == Len(scores)

RECURSIVE ScoredCount(_)
ScoredCount(scores) ==
    IF scores = <<>> THEN 0
    ELSE (IF Head(scores) >= 0 THEN 1 ELSE 0) + ScoredCount(Tail(scores))

ScoredMax(scores) == ScoredCount(scores) * 5

\* Lines 1293-1308: the row of question i in the table of the summary.
ScoreAt(s, i) == IF i <= Len(s.scores) THEN s.scores[i] ELSE SKIPPED

Status_PassFromThree(score) ==
    IF score < 0 THEN "skipped"
    ELSE IF score >= 3 THEN "pass"
    ELSE "fail"

Status(score) ==
    IF score < 0 THEN "skipped"
    ELSE IF score >= 4 THEN "pass"
    ELSE IF score >= 3 THEN "partial"
    ELSE "fail"

NoSummary == [kind |-> "none", total |-> 0, max_total |-> 0, rows |-> <<>>]

\* Lines 1282-1317: the text the handler sends for the complete session s.
Summary(s) ==
    IF ScoredCount(s.scores) = 0
    THEN [NoSummary EXCEPT !.kind = "all_skipped"]
    ELSE [kind |-> "table", total |-> ScoredTotal(s.scores),
          max_total |-> ScoredMax(s.scores),
          rows |-> [i \in 1..Len(s.questions) |-> Status(ScoreAt(s, i))]]

NoCalls == [u \in Users |-> 0]

\* base is the tracker file, and the number of record_review calls made,
\* when the user's session began,
\* undelivered the number of replies to the user that have raised.
NoQuiz ==
    [op |-> "none", user |-> 1, outcome |-> "none", pre |-> EmptyMap,
     pre_tracker |-> NoTrackerFile, session |-> NoSession, calls |-> NoCalls,
     base |-> [u \in Users |-> [tracker |-> NoTrackerFile, reviews |-> 0]],
     summary |-> NoSummary,
     undelivered |-> 0]

QuizRecord(op, user, outcome, session, calls) ==
    [op |-> op, user |-> user, outcome |-> outcome, pre |-> quiz_sessions,
     pre_tracker |-> tracker_file, session |-> session, calls |-> calls,
     base |-> quiz.base, summary |-> NoSummary,
     undelivered |-> quiz.undelivered]

\* The handler returns before it touches a session.
QuizLeftAlone(op, user, outcome) ==
    /\ quiz' = QuizRecord(op, user, outcome, NoSession, quiz.calls)
    /\ UNCHANGED quiz_sessions

StartSession_EvenIfEmpty(op, user, source, n) ==
    /\ quiz_sessions' = MapPut(quiz_sessions, user, NewSession(source, n))
    /\ quiz' = [QuizRecord(op, user,
                            IF n = 0 THEN "no_questions" ELSE "started",
                            NewSession(source, n),
                            [quiz.calls EXCEPT ![user] = 0])
                 EXCEPT !.base[user] = [tracker |-> tracker_file,
                                             reviews |-> reviews]]

StartSession_KeepPrior(op, user, source, n) ==
    IF n = 0 \/ user \in DOMAIN quiz_sessions
    THEN QuizLeftAlone(op, user, IF n = 0 THEN "no_questions" ELSE "started")
    ELSE /\ quiz_sessions' = MapPut(quiz_sessions, user, NewSession(source, n))
         /\ quiz' = [QuizRecord(op, user, "started", NewSession(source, n),
                                [quiz.calls EXCEPT ![user] = 0])
                      EXCEPT !.base[user] = [tracker |-> tracker_file,
                                             reviews |-> reviews]]

\* quiz_handler lines 1039-1045 and exam_handler lines 1103-1108: no session
\* without questions, else a new one in the user's place.
StartSession(op, user, source, n) ==
    IF n = 0
    THEN QuizLeftAlone(op, user, "no_questions")
    ELSE /\ quiz_sessions' = MapPut(quiz_sessions, user, NewSession(source, n))
         /\ quiz' = [QuizRecord(op, user, "started", NewSession(source, n),
                                [quiz.calls EXCEPT ![user] = 0])
                      EXCEPT !.base[user] = [tracker |-> tracker_file,
                                             reviews |-> reviews]]

NoMatch == [type |-> "none", title |-> "none"]

\* quiz_handler (lines 980-1060).  pick is the item the title matches, or
\* the one random.choice takes when nothing is due; n is the number of
\* questions the generation gives, 0 when it fails.
QuizHandler(user, mode, pick, n) ==
    /\ ~LoadTracker(tracker_file).raised
    /\ IF Cardinality(reviewable) < MIN_ITEMS_FOR_QUIZ
       THEN QuizLeftAlone("quiz", user, "no_items")
       ELSE IF mode = "connect"
       THEN StartSession("quiz", user, Conexiones,
                         IF Cardinality(reviewable) < 2 THEN 0 ELSE n)
       ELSE IF mode = "title"
       THEN IF pick = NoMatch
            THEN QuizLeftAlone("quiz", user, "not_found")
            ELSE StartSession("quiz", user, pick, n)
       ELSE LET listed == DueItems(LoadTracker(tracker_file).data, reviewable,
                                   today)
            IN  StartSession("quiz", user,
                             IF listed # <<>>
                             THEN [type |-> listed[1].type,
                                   title |-> listed[1].title]
                             ELSE pick, n)
    /\ UNCHANGED <<tracker_vars, race, due_vars, evaluation>>
    /\ UNCHANGED <<index_vars, sm2_vars, other_vars>>

\* exam_handler (lines 1063-1123).
ExamHandler(user, pick, n) ==
    /\ IF pick = NoMatch
       THEN QuizLeftAlone("exam", user, "not_found")
       ELSE StartSession("exam", user, pick, n)
    /\ UNCHANGED <<tracker_vars, race, due_vars, evaluation>>
    /\ UNCHANGED <<index_vars, sm2_vars, other_vars>>

Advanced_AnswerOnly(s, score, answer) ==
    [s EXCEPT !.scores = Append(@, score), !.answers = Append(@, answer),
              !.current_index = IF score = SKIPPED THEN @ ELSE @ + 1]

\* Lines 1215-1217 and 1242-1260: the score and the text are appended and
\* the cursor moves on.
Advanced(s, score, answer) ==
    [s EXCEPT !.scores = Append(@, score), !.answers = Append(@, answer),
              !.current_index = @ + 1]

LeftSession == Advanced(NewSession(ItemOrder[1], 2), SKIPPED, "[skipped]")

\* _send_next_question_or_finish (lines 1275-1336) for the session s of user.
Finished(s) == IF IsComplete(s) THEN [s EXCEPT !.active = FALSE] ELSE s

SendNextOrFinish(user, s, op) ==
    /\ quiz_sessions' =
           IF IsComplete(s)
           THEN Restrict(quiz_sessions, DOMAIN quiz_sessions \ {user})
           ELSE MapPut(quiz_sessions, user, s)
    /\ quiz' = [QuizRecord(op, user,
                            IF IsComplete(s) THEN "complete" ELSE "next",
                            Finished(s),
                            [quiz.calls EXCEPT ![user] = @ + 1])
                 EXCEPT !.summary = IF IsComplete(s) THEN Summary(Finished(s))
                                    ELSE NoSummary]

HasActiveQuiz(user) ==
    user \in DOMAIN quiz_sessions /\ quiz_sessions[user].active

\* skip_handler (lines 1197-1219).
SkipHandler(user) ==
    /\ IF ~HasActiveQuiz(user)
       THEN QuizLeftAlone("skip", user, "no_quiz")
       ELSE SendNextOrFinish(user,
                Advanced(quiz_sessions[user], SKIPPED, "[skipped]"), "skip")
    /\ UNCHANGED <<tracker_vars, race, due_vars, evaluation>>
    /\ UNCHANGED <<index_vars, sm2_vars, other_vars>>

\* evaluate_answer (exam.py lines 589-635).  reply is what the chat call gives
\* back: "raises" when the call, the JSON parsing or the clamp of a score that
\* is no number raises; "no_score" for JSON without a score; "score" for JSON
\* with a number, told here in half points (7 is 3.5).
Reply(kind, twice) == [kind |-> kind, twice |-> twice]

EvaluateAnswer(reply) ==
    IF reply.kind = "raises"
    THEN [twice |-> 0, failed |-> TRUE,
          feedback |-> "Error al evaluar la respuesta."]
    ELSE [twice |-> Min2(10, Max2(0, IF reply.kind = "no_score" THEN 0
                                     ELSE reply.twice)),
          failed |-> FALSE, feedback |-> "feedback"]

NoEvaluation ==
    [reply |-> Reply("none", 0), result |-> EvaluateAnswer(Reply("no_score", 0))]

\* One call of evaluate_answer on its own.
Evaluate(reply) ==
    /\ evaluation' = [reply |-> reply, result |-> EvaluateAnswer(reply)]
    /\ UNCHANGED <<tracker_vars, race, due_vars, quiz_sessions, quiz>>
    /\ UNCHANGED <<index_vars, sm2_vars, other_vars>>

AnswerHandler_SkipsFailed(user, reply) ==
    LET s == quiz_sessions[user]
        result == EvaluateAnswer(reply)
    IN  /\ HasActiveQuiz(user) /\ ~IsComplete(s)
        /\ result.twice % 2 = 0
        /\ reviews < MaxAnswers
        /\ evaluation' = [reply |-> reply, result |-> result]
        /\ IF result.failed
           THEN /\ SendNextOrFinish(user, Advanced(s, SKIPPED, "answer"),
                                    "answer")
                /\ UNCHANGED <<tracker_file, reviews>>
           ELSE LET q == s.questions[s.current_index + 1]
                    r == RecordReviewRun(tracker_file, q.source_type,
                                         q.source_title, result.twice \div 2,
                                         today)
                IN  /\ ~r.raised
                    /\ tracker_file' = r.file
                    /\ reviews' = reviews + 1
                    /\ SendNextOrFinish(user,
                           Advanced(s, result.twice \div 2, "answer"),
                           "answer")
        /\ UNCHANGED <<today, review>>
        /\ UNCHANGED <<race, due_vars>>
        /\ UNCHANGED <<index_vars, sm2_vars, other_vars>>

AnswerHandler_ReviewsFailuresOnly(user, reply) ==
    LET s == quiz_sessions[user]
        q == s.questions[s.current_index + 1]
        result == EvaluateAnswer(reply)
        score == result.twice \div 2
        r == RecordReviewRun(tracker_file, q.source_type, q.source_title,
                             score, today)
    IN  /\ HasActiveQuiz(user) /\ ~IsComplete(s)
        /\ result.twice % 2 = 0
        /\ reviews < MaxAnswers
        /\ ~r.raised
        /\ evaluation' = [reply |-> reply, result |-> result]
        /\ tracker_file' = IF score < 3 THEN r.file ELSE tracker_file
        /\ reviews' = reviews + 1
        /\ SendNextOrFinish(user, Advanced(s, score, "answer"), "answer")
        /\ UNCHANGED <<today, review>>
        /\ UNCHANGED <<race, due_vars>>
        /\ UNCHANGED <<index_vars, sm2_vars, other_vars>>

\* _handle_quiz_answer (lines 1222-1262) for a text message whose evaluation
\* gets reply.  The tracker model counts whole points, so the handler is
\* followed for the replies that give a whole score.
AnswerHandler(user, reply) ==
    IF ~HasActiveQuiz(user) \/ IsComplete(quiz_sessions[user])
    THEN /\ QuizLeftAlone("answer", user, "no_quiz")
         /\ UNCHANGED <<tracker_vars, race, due_vars, evaluation>>
         /\ UNCHANGED <<index_vars, sm2_vars, other_vars>>
    ELSE LET s == quiz_sessions[user]
             q == s.questions[s.current_index + 1]
             result == EvaluateAnswer(reply)
             score == result.twice \div 2
             r == RecordReviewRun(tracker_file, q.source_type, q.source_title,
                                  score, today)
         IN  /\ result.twice % 2 = 0
             /\ reviews < MaxAnswers
             /\ ~r.raised
             /\ evaluation' = [reply |-> reply, result |-> result]
             /\ tracker_file' = r.file
             /\ reviews' = reviews + 1
             /\ SendNextOrFinish(user, Advanced(s, score, "answer"), "answer")
             /\ UNCHANGED <<today, review>>
             /\ UNCHANGED <<race, due_vars>>
             /\ UNCHANGED <<index_vars, sm2_vars, other_vars>>

\* ------------------------------------------- replies that are not delivered
\* update.message.reply_text raises when the message cannot be sent; the
\* handler stops there and the application logs the error and goes on with
\* the next update.

\* skip_handler when the reply of lines 1211-1214 raises: nothing was
\* appended yet.
SkipReplyFails(user) ==
    /\ HasActiveQuiz(user)
    /\ quiz.undelivered < MaxUndelivered
    /\ quiz' = [QuizRecord("skip", user, "reply_failed", quiz_sessions[user],
                            quiz.calls)
                 EXCEPT !.undelivered = @ + 1]
    /\ UNCHANGED quiz_sessions
    /\ UNCHANGED <<tracker_vars, race, due_vars, evaluation>>
    /\ UNCHANGED <<index_vars, sm2_vars, other_vars>>

\* _handle_quiz_answer when the reply of line 1254 raises: the score and the
\* text are in the lists (lines 1242-1243), the review is not recorded and
\* the cursor stays.
AnswerReplyFails(user, reply) ==
    /\ HasActiveQuiz(user) /\ ~IsComplete(quiz_sessions[user])
    /\ quiz.undelivered < MaxUndelivered
    /\ LET s == quiz_sessions[user]
           result == EvaluateAnswer(reply)
           kept == [s EXCEPT !.scores = Append(@, result.twice \div 2),
                             !.answers = Append(@, "answer")]
       IN  /\ result.twice % 2 = 0
           /\ evaluation' = [reply |-> reply, result |-> result]
           /\ quiz_sessions' = MapPut(quiz_sessions, user, kept)
           /\ quiz' = [QuizRecord("answer", user, "reply_failed", kept,
                                   quiz.calls)
                        EXCEPT !.undelivered = @ + 1]
    /\ UNCHANGED <<tracker_vars, race, due_vars>>
    /\ UNCHANGED <<index_vars, sm2_vars, other_vars>>

\* _send_next_question_or_finish when its reply raises (line 1319 or 1331):
\* a complete session is inactive by then (line 1280) and stays in the store.
SendNextOrFinishFails(user, s, op) ==
    /\ quiz_sessions' = MapPut(quiz_sessions, user, Finished(s))
    /\ quiz' = [QuizRecord(op, user, "send_failed", Finished(s),
                            [quiz.calls EXCEPT ![user] = @ + 1])
                 EXCEPT !.undelivered = @ + 1]

SkipSendFails(user) ==
    /\ HasActiveQuiz(user)
    /\ quiz.undelivered < MaxUndelivered
    /\ SendNextOrFinishFails(user,
           Advanced(quiz_sessions[user], SKIPPED, "[skipped]"), "skip")
    /\ UNCHANGED <<tracker_vars, race, due_vars, evaluation>>
    /\ UNCHANGED <<index_vars, sm2_vars, other_vars>>

AnswerSendFails(user, reply) ==
    /\ HasActiveQuiz(user) /\ ~IsComplete(quiz_sessions[user])
    /\ quiz.undelivered < MaxUndelivered
    /\ LET s == quiz_sessions[user]
           q == s.questions[s.current_index + 1]
           result == EvaluateAnswer(reply)
           score == result.twice \div 2
           r == RecordReviewRun(tracker_file, q.source_type, q.source_title,
                                score, today)
       IN  /\ result.twice % 2 = 0
           /\ reviews < MaxAnswers
           /\ ~r.raised
           /\ evaluation' = [reply |-> reply, result |-> result]
           /\ tracker_file' = r.file
           /\ reviews' = reviews + 1
           /\ SendNextOrFinishFails(user, Advanced(s, score, "answer"),
                                    "answer")
    /\ UNCHANGED <<today, review>>
    /\ UNCHANGED <<race, due_vars>>
    /\ UNCHANGED <<index_vars, sm2_vars, other_vars>>

\* --------------------------------------------- record_review, step by step
Callers == {1, 2}

NoRaceCall ==
    [pc |-> "idle", item_type |-> "card", title |-> "A", score |-> 0,
     date |-> 0, tracker |-> EmptyTracker, loaded_after |-> 0]
NoRace == [call |-> [c \in Callers |-> NoRaceCall], writes |-> <<>>]

SavedBy_Reloads(call, date) ==
    LET tracker == LoadTracker(tracker_file).data
    IN  TrackerPut(tracker, call.item_type, call.title,
                   ReviewedItem(LookupItem(tracker, call.item_type, call.title),
                                call.score, date))

\* Lines 150-179: what a call saves is the tracker it loaded at line 147
\* with its own item put in.
SavedBy(call, date) ==
    TrackerPut(call.tracker, call.item_type, call.title,
               ReviewedItem(LookupItem(call.tracker, call.item_type, call.title),
                            call.score, date))

\* Line 147: caller c enters record_review and loads the tracker.
RaceLoad(c, item_type, title, score) ==
    /\ race.call[c].pc = "idle"
    /\ ~LoadTracker(tracker_file).raised
    /\ race' = [race EXCEPT !.call[c] =
                   [pc |-> "loaded", item_type |-> item_type, title |-> title,
                    score |-> score, date |-> today,
                    tracker |-> LoadTracker(tracker_file).data,
                    loaded_after |-> Len(race.writes)]]
    /\ UNCHANGED <<tracker_vars, due_vars, quiz_vars>>
    /\ UNCHANGED <<index_vars, sm2_vars, other_vars>>

\* Lines 150-180: caller c updates its item and saves.
RaceSave(c) ==
    /\ race.call[c].pc = "loaded"
    /\ tracker_file' = [state |-> "ok", data |-> SavedBy(race.call[c], today)]
    /\ race' = [race EXCEPT !.call[c].pc = "done", !.call[c].date = today,
                            !.writes = Append(@, c)]
    /\ UNCHANGED <<today, review, reviews>>
    /\ UNCHANGED <<due_vars, quiz_vars>>
    /\ UNCHANGED <<index_vars, sm2_vars, other_vars>>

\* ---------------------------------------------------------- specifications
\* -------------------------------------------------------------------- cards
\* A card is the sequence of its lines, each told by what the extraction
\* looks at once the line is stripped: "idea" is the line '## Idea', "h2" any
\* other line that starts with '## ', "comment" a line that starts with
\* '<!--', "blank" an empty line, "illegible" a line of text that holds
\* '[illegible]', "text" any other line.  <<>> is a card that is missing or
\* empty.
LineKinds == {"idea", "h2", "text", "illegible", "comment", "blank"}

RECURSIVE SeqsUpTo(_, _)
SeqsUpTo(S, n) ==
    IF n = 0 THEN {<<>>}
    ELSE LET shorter == SeqsUpTo(S, n - 1)
         IN  shorter \cup {Append(q, x) : q \in shorter, x \in S}

Contents == SeqsUpTo(LineKinds, MaxLines)

RECURSIVE IdeaText_PastHeading(_, _)
IdeaText_PastHeading(lines, in_idea) ==
    IF lines = <<>> THEN <<>>
    ELSE IF Head(lines) = "idea" THEN IdeaText_PastHeading(Tail(lines), TRUE)
    ELSE IF in_idea /\ Head(lines) \in {"text", "illegible"}
    THEN <<Head(lines)>> \o IdeaText_PastHeading(Tail(lines), in_idea)
    ELSE IdeaText_PastHeading(Tail(lines), in_idea)

\* _extract_card_content lines 289-301: the loop over the lines.
RECURSIVE IdeaText(_, _)
IdeaText(lines, in_idea) ==
    IF lines = <<>> THEN <<>>
    ELSE IF Head(lines) = "idea" THEN IdeaText(Tail(lines), TRUE)
    ELSE IF in_idea /\ Head(lines) = "h2" THEN <<>>
    ELSE IF in_idea /\ Head(lines) \notin {"blank", "comment"}
    THEN <<Head(lines)>> \o IdeaText(Tail(lines), in_idea)
    ELSE IdeaText(Tail(lines), in_idea)

NoCardContent == [found |-> FALSE, idea |-> <<>>]

\* _extract_card_content (lines 280-303): None, or the card with its idea.
ExtractCardContent(content) ==
    LET idea_text == IdeaText(content, FALSE)
    IN  IF content = <<>> THEN NoCardContent
        ELSE IF idea_text = <<>>
                \/ \E i \in DOMAIN idea_text : idea_text[i] = "illegible"
        THEN NoCardContent
        ELSE [found |-> TRUE, idea |-> idea_text]

\* get_reviewable_items lines 352-363: the cards of the listing.
ReviewableCards(cards) ==
    {title \in DOMAIN cards :
        /\ ExtractCardContent(cards[title]).found
        /\ ExtractCardContent(cards[title]).idea # <<>>}

NoCard ==
    [op |-> "none", cards |-> EmptyMap, result |-> NoCardContent,
     listed |-> {}]

ExtractCard(title, content) ==
    /\ card' = [op |-> "extract", cards |-> MapPut(EmptyMap, title, content),
                result |-> ExtractCardContent(content), listed |-> {}]
    /\ UNCHANGED <<chain, jobs>>
    /\ UNCHANGED <<tracker_vars, race, due_vars, quiz_vars>>
    /\ UNCHANGED <<index_vars, sm2_vars>>

GetReviewableCards(cards) ==
    /\ card' = [op |-> "list", cards |-> cards, result |-> NoCardContent,
                listed |-> ReviewableCards(cards)]
    /\ UNCHANGED <<chain, jobs>>
    /\ UNCHANGED <<tracker_vars, race, due_vars, quiz_vars>>
    /\ UNCHANGED <<index_vars, sm2_vars>>

\* ------------------------------------------------------------ agent chains
\* A chain is the sequence of the agents of its steps.  An output is told by
\* the step that gave it and by its length in characters.
Agents == {"librarian", "connector"}
Chains == SeqsUpTo(Agents, MaxSteps)
OutputLengths == {0, 1, MAX_STEP_OUTPUT_CHARS + 1}

\* _truncate (lines 114-118).
Truncate(output, limit) ==
    IF output.len <= limit THEN output
    ELSE [output EXCEPT !.len = limit, !.truncated = TRUE]

NoOutput == [by |-> 0, len |-> 0, truncated |-> FALSE]
NoSection == [agent |-> "none", output |-> NoOutput]

PreviousSection_First(step_outputs) ==
    IF step_outputs = <<>> \/ step_outputs[1].output.len = 0
    THEN NoSection
    ELSE [agent |-> step_outputs[1].agent,
          output |-> Truncate(step_outputs[1].output, MAX_STEP_OUTPUT_CHARS)]

\* Lines 208-214: the part of the prompt that carries the output of the step
\* before; prev_output is the output of the last step that finished.
PreviousSection(step_outputs) ==
    LET n == Len(step_outputs)
    IN  IF n = 0 \/ step_outputs[n].output.len = 0
        THEN NoSection
        ELSE [agent |-> step_outputs[n].agent,
              output |-> Truncate(step_outputs[n].output,
                                  MAX_STEP_OUTPUT_CHARS)]

RECURSIVE TotalLen(_)
TotalLen(step_outputs) ==
    IF step_outputs = <<>> THEN 0
    ELSE Head(step_outputs).output.len + TotalLen(Tail(step_outputs))

\* Lines 239-242 and 255-265: the outputs joined under their agents' names,
\* or the one output alone after a chain of one step, cut to the limit.  The
\* few characters of the names and the rules between the sections are not
\* counted.
FinalOutput(step_outputs, bare) ==
    [sections |-> step_outputs, bare |-> bare,
     truncated |-> TotalLen(step_outputs) > MAX_FINAL_OUTPUT_CHARS]

NoResult ==
    [success |-> FALSE, output |-> FinalOutput(<<>>, FALSE),
     steps_completed |-> 0, steps_total |-> 0, failed_step |-> "none",
     step_outputs |-> <<>>]

\* Lines 147-154, 160-167, 183-190 and 237-248.
Failure(step_outputs, idx, steps_total, failed_step) ==
    [success |-> FALSE, output |-> FinalOutput(step_outputs, FALSE),
     steps_completed |-> idx, steps_total |-> steps_total,
     failed_step |-> failed_step, step_outputs |-> step_outputs]

\* Lines 255-269.
Success(step_outputs, steps_total) ==
    [success |-> TRUE,
     output |-> FinalOutput(step_outputs, Len(step_outputs) = 1),
     steps_completed |-> steps_total, steps_total |-> steps_total,
     failed_step |-> "none", step_outputs |-> step_outputs]

\* sent are the messages given to client.send_message, replies what came
\* back for them, in the order of the calls.
NoChain ==
    [pc |-> "idle", steps |-> <<>>, images |-> FALSE, idx |-> 0,
     step_outputs |-> <<>>, sent |-> <<>>, replies |-> <<>>,
     result |-> NoResult]

ChainLeavesRest ==
    /\ UNCHANGED <<card, jobs>>
    /\ UNCHANGED <<tracker_vars, race, due_vars, quiz_vars>>
    /\ UNCHANGED <<index_vars, sm2_vars>>

\* execute_chain lines 141-194: the server, the session and the images;
\* failed is the one of them that raises, "none" when none does.
ExecuteChain(steps, images, failed) ==
    /\ chain.pc \in {"idle", "done"}
    /\ failed = "vision_extraction" => images
    /\ chain' =
           IF failed # "none"
           THEN [NoChain EXCEPT !.pc = "done", !.steps = steps,
                                !.images = images,
                                !.result = Failure(<<>>, 0, Len(steps), failed)]
           ELSE IF steps = <<>>
           THEN [NoChain EXCEPT !.pc = "done", !.images = images,
                                !.result = Success(<<>>, 0)]
           ELSE [NoChain EXCEPT !.pc = "steps", !.steps = steps,
                                !.images = images]
    /\ ChainLeavesRest

\* Lines 196-252 for the step at idx, and lines 254-269 after the last one:
\* the prompt is built and sent, and the agent answers with a text of len
\* characters or the call raises.
ChainStep(ok, len) ==
    /\ chain.pc = "steps"
    /\ LET idx == chain.idx
           step == chain.steps[idx + 1]
           message == [agent |-> step, image |-> chain.images /\ idx = 0,
                       previous |-> PreviousSection(chain.step_outputs),
                       remaining |-> SubSeq(chain.steps, idx + 2,
                                            Len(chain.steps))]
           output == [by |-> idx + 1, len |-> len, truncated |-> FALSE]
           outputs == Append(chain.step_outputs,
                             [agent |-> step, output |-> output])
       IN  chain' =
               IF ~ok
               THEN [chain EXCEPT
                        !.pc = "done",
                        !.sent = Append(@, message),
                        !.replies = Append(@, [ok |-> FALSE,
                                               output |-> NoOutput]),
                        !.result = Failure(chain.step_outputs, idx,
                                           Len(chain.steps), step)]
               ELSE [chain EXCEPT
                        !.pc = IF idx + 1 = Len(chain.steps) THEN "done"
                               ELSE "steps",
                        !.idx = idx + 1,
                        !.step_outputs = outputs,
                        !.sent = Append(@, message),
                        !.replies = Append(@, [ok |-> TRUE,
                                               output |-> output]),
                        !.result = IF idx + 1 = Len(chain.steps)
                                   THEN Success(outputs, Len(chain.steps))
                                   ELSE NoResult]
    /\ ChainLeavesRest

\* ---------------------------------------------------------- scheduled jobs
\* The job queue starts _run_scheduled_job as a task of the event loop for
\* every trigger; a task runs without a break from one await to the next.
Triggers == 1..MaxTriggers
JobNames == {"daily_quiz", "weekly_connections"}

Locked_Never(locks, name) == FALSE

\* lock.locked() for the lock of line 105.
Locked(locks, name) == name \in DOMAIN locks /\ locks[name]

IdleTask == [pc |-> "idle", name |-> "none"]

NoTrigger ==
    [op |-> "none", trigger |-> 1, name |-> "none", outcome |-> "none",
     busy |-> FALSE, executions |-> 0]

\* locks is _job_locks (TRUE for a lock that is held), task where the task
\* of each trigger is, executions the calls of execute_opencode_task so far,
\* last the step taken last with what was true before it.
NoJobs ==
    [locks |-> EmptyMap, task |-> [t \in Triggers |-> IdleTask],
     executions |-> 0, last |-> NoTrigger]

Running(name) ==
    {t \in Triggers : jobs.task[t].pc # "idle" /\ jobs.task[t].name = name}

JobStep(op, t, name, outcome) ==
    [op |-> op, trigger |-> t, name |-> name, outcome |-> outcome,
     busy |-> Running(name) # {}, executions |-> jobs.executions]

JobsLeaveRest ==
    /\ UNCHANGED <<card, chain>>
    /\ UNCHANGED <<tracker_vars, race, due_vars, quiz_vars>>
    /\ UNCHANGED <<index_vars, sm2_vars>>

\* _run_scheduled_job lines 98-113, up to the await of the executor: the
\* lock is made if missing; a held lock ends the call, a free one is taken
\* (acquiring a free asyncio.Lock does not give way to other tasks) and the
\* executor is called.
RunScheduledJob(t, name) ==
    /\ jobs.task[t].pc = "idle"
    /\ Locked(jobs.locks, name) \/ jobs.executions < MaxExecutions
    /\ jobs' =
           IF Locked(jobs.locks, name)
           THEN [jobs EXCEPT
                    !.last = JobStep("trigger", t, name, "skipped")]
           ELSE [jobs EXCEPT
                    !.locks = MapPut(@, name, TRUE),
                    !.task[t] = [pc |-> "executing", name |-> name],
                    !.executions = @ + 1,
                    !.last = JobStep("trigger", t, name, "started")]
    /\ JobsLeaveRest

\* Lines 113-125: the executor returns a result, raises an Exception, or the
\* task is cancelled while it waits, which no except clause here catches.
ExecutorReturns(t, how) ==
    /\ jobs.task[t].pc = "executing"
    /\ jobs' =
           IF how = "cancelled"
           THEN [jobs EXCEPT
                    !.locks[jobs.task[t].name] = FALSE,
                    !.task[t] = IdleTask,
                    !.last = JobStep("ended", t, jobs.task[t].name, how)]
           ELSE [jobs EXCEPT
                    !.task[t].pc = IF how = "result" THEN "sending_result"
                                   ELSE "sending_error",
                    !.last = JobStep("returned", t, jobs.task[t].name, how)]
    /\ JobsLeaveRest

\* Lines 116-123 and 127-136: the messages are sent, failures to send are
\* logged, and leaving the `async with` block releases the lock.
Notified(t) ==
    /\ jobs.task[t].pc \in {"sending_result", "sending_error"}
    /\ jobs' = [jobs EXCEPT
                    !.locks[jobs.task[t].name] = FALSE,
                    !.task[t] = IdleTask,
                    !.last = JobStep("ended", t, jobs.task[t].name,
                                     IF jobs.task[t].pc = "sending_result"
                                     THEN "result" ELSE "raised")]
    /\ JobsLeaveRest


InitOther ==
    /\ card = NoCard
    /\ chain = NoChain
    /\ jobs = NoJobs

InitIndex ==
    /\ vault = [f \in Files |-> NoFile]
    /\ now = 0
    /\ manifest_file = [state |-> "missing", data |-> DefaultManifest]
    /\ index_file = [exists |-> FALSE, ids |-> <<>>]
    /\ last = NoCall
    /\ max_ever = -1
    /\ search = NoSearch
    /\ faults = 0

\* No call under way, nothing in the vault to review, no quiz.
InitRest ==
    /\ race = NoRace
    /\ reviewable = {}
    /\ due = NoDue
    /\ quiz_sessions = EmptyMap
    /\ quiz = NoQuiz
    /\ evaluation = NoEvaluation
    /\ InitOther

InitExam ==
    /\ today = 0
    /\ tracker_file = NoTrackerFile
    /\ review = NoReview
    /\ reviews = 0
    /\ InitRest

Init ==
    /\ InitIndex
    /\ InitExam
    /\ sm2_pc = "idle"
    /\ sm2_arg = [score |-> 0, repetitions |-> 0,
                  ease_factor |-> DEFAULT_EASE_FACTOR, interval_days |-> 0]
    /\ sm2_res = [repetitions |-> 0, ease_factor |-> DEFAULT_EASE_FACTOR,
                  interval_days |-> 0]

InitSm2 ==
    /\ InitIndex
    /\ InitExam
    /\ sm2_pc = "ready"
    /\ sm2_arg \in Sm2Inputs
    /\ sm2_res = [repetitions |-> 0, ease_factor |-> DEFAULT_EASE_FACTOR,
                  interval_days |-> 0]

EmbedOutcomes == {"ok", "empty", "raise"}
Envs == {"ok", "no_faiss", "no_key"}

VaultStep ==
    \/ \E f \in Files, chunks \in 0..MaxChunks : WriteFile(f, chunks, chunks)
    \/ \E f \in Files : DeleteFile(f)

\* Without the library or the key the call returns before it looks at
\* force or embeds anything.
EnsureStep ==
    \/ \E env \in Envs \ {"ok"} : EnsureIndex(FALSE, env, "ok")
    \/ \E force \in BOOLEAN, embed \in EmbedOutcomes :
          EnsureIndex(force, "ok", embed)

InterruptStep == \E force \in BOOLEAN : EnsureIndexInterrupted(force)

DamageStep == \E kind \in {"missing", "corrupt"} : ManifestDamage(kind)

SearchStep ==
    \/ \E top_k \in 1..MaxK, env \in Envs \ {"ok"} :
          SemanticSearch(top_k, env, "ok", "ok")
    \/ \E top_k \in 1..MaxK, embed \in EmbedOutcomes,
          qembed \in EmbedOutcomes : SemanticSearch(top_k, "ok", embed, qembed)
    \/ SearchReturn

Sm2Step == Sm2Call \/ \E score \in 0..5 : Sm2Again(score)

\* Vault edits and ensure_index calls.
Next == VaultStep \/ EnsureStep
Spec == Init /\ [][Next]_vars

\* ... and runs cut off between the two writes.
NextCrash == VaultStep \/ EnsureStep \/ InterruptStep
SpecCrash == Init /\ [][NextCrash]_vars

\* Vault edits, ensure_index calls and manifests lost or damaged.
NextDamage == VaultStep \/ EnsureStep \/ DamageStep
SpecDamage == Init /\ [][NextDamage]_vars

\* ... and manifests lost or damaged.
NextFaults == VaultStep \/ EnsureStep \/ InterruptStep \/ DamageStep
SpecFaults == Init /\ [][NextFaults]_vars

\* Vault edits, damaged manifests and searches (each search runs its own
\* ensure_index first).
NextSearch == VaultStep \/ DamageStep \/ SearchStep
SpecSearch == Init /\ [][NextSearch]_vars

\* Applications of _sm2_update.
SpecSm2 == InitSm2 /\ [][Sm2Step]_vars

\* The tracker as earlier reviews left it.
InitTracker ==
    /\ InitIndex
    /\ sm2_pc = "idle"
    /\ sm2_arg = [score |-> 0, repetitions |-> 0,
                  ease_factor |-> DEFAULT_EASE_FACTOR, interval_days |-> 0]
    /\ sm2_res = [repetitions |-> 0, ease_factor |-> DEFAULT_EASE_FACTOR,
                  interval_days |-> 0]
    /\ today = 0
    /\ tracker_file \in SeedTrackers
    /\ review = NoReview
    /\ reviews = 0
    /\ InitRest

\* A failed review, and one of each passing score.
ReviewScores == {0, 3, 4, 5}

ReviewStep ==
    \E item \in Items, score \in ReviewScores :
        RecordReview(item.type, item.title, score)

TrackerDamageStep ==
    \E kind \in {"missing", "corrupt", "not_dict", "bad_encoding"} :
        TrackerDamage(kind)

\* Reviews, day after day.
NextTracker == ReviewStep \/ NextDay
SpecTracker == InitTracker /\ [][NextTracker]_vars

\* ... and tracker files lost or damaged.
NextTrackerDamage == ReviewStep \/ NextDay \/ TrackerDamageStep
SpecTrackerDamage == InitTracker /\ [][NextTrackerDamage]_vars

RaceStep ==
    \/ \E c \in Callers, item \in Items, score \in ReviewScores :
          RaceLoad(c, item.type, item.title, score)
    \/ \E c \in Callers : RaceSave(c)

\* Two record_review calls, their loads and saves in any order.
NextRace == RaceStep \/ NextDay
SpecRace == InitTracker /\ [][NextRace]_vars

DueScores == {2, 3, 5}

DueStep ==
    \/ GetDueItems
    \/ DueReturn
    \/ \E listed \in SUBSET Items : SetReviewable(listed)
    \/ due = NoDue /\ NextDay
    \/ /\ due = NoDue
       /\ \E item \in Items, score \in DueScores :
              RecordReview(item.type, item.title, score)

\* Notes come and go, items are reviewed, days pass, and the due items are
\* asked for.
SpecDue == Init /\ [][DueStep]_vars

InitQuizOn(trackers) ==
    /\ InitIndex
    /\ sm2_pc = "idle"
    /\ sm2_arg = [score |-> 0, repetitions |-> 0,
                  ease_factor |-> DEFAULT_EASE_FACTOR, interval_days |-> 0]
    /\ sm2_res = [repetitions |-> 0, ease_factor |-> DEFAULT_EASE_FACTOR,
                  interval_days |-> 0]
    /\ today = 0
    /\ tracker_file \in trackers
    /\ review = NoReview
    /\ reviews = 0
    /\ race = NoRace
    /\ reviewable \in {{}, {ItemOrder[1], ItemOrder[3]}}
    /\ due = NoDue
    /\ quiz_sessions = MapPut(EmptyMap, 2, LeftSession)
    /\ quiz = [NoQuiz EXCEPT !.calls[2] = 1]
    /\ evaluation = NoEvaluation
    /\ InitOther

InitQuiz == InitQuizOn({NoTrackerFile})

\* An evaluation that fails, which gives score 0, and one that gives 5.
QuizReplies == {Reply("raises", 0), Reply("score", 10)}

QuizStep ==
    \/ \E user \in Actors, n \in 0..MaxQuestions :
          QuizHandler(user, "connect", NoMatch, n)
    \/ \E user \in Actors, pick \in reviewable \cup {NoMatch},
          n \in 0..MaxQuestions : QuizHandler(user, "title", pick, n)
    \/ \E user \in Actors, pick \in reviewable, n \in 0..MaxQuestions :
          QuizHandler(user, "random", pick, n)
    \/ \E user \in Actors, pick \in reviewable \cup {NoMatch},
          n \in 0..MaxQuestions : ExamHandler(user, pick, n)
    \/ \E user \in Actors : SkipHandler(user)
    \/ \E user \in Actors, reply \in QuizReplies : AnswerHandler(user, reply)

\* /quiz, /exam, /skip and answers of the users.
SpecQuiz == InitQuiz /\ [][QuizStep]_vars

\* The cards the listing is tried on: a missing one, one without text under
\* its Idea heading, a legible one, an illegible one, and one whose text
\* comes after the next heading.
ListedContents ==
    {<<>>, <<"idea", "comment", "blank">>, <<"idea", "text">>,
     <<"idea", "text", "illegible">>, <<"idea", "h2", "text">>}

CardStep ==
    \/ \E content \in Contents : ExtractCard("A", content)
    \/ \E cards \in [{"A", "B"} -> ListedContents] : GetReviewableCards(cards)

\* Cards are extracted and listed.
SpecCards == Init /\ [][CardStep]_vars

UndeliveredStep ==
    \/ \E user \in Actors, pick \in reviewable, n \in 1..MaxQuestions :
          ExamHandler(user, pick, n)
    \/ \E user \in Actors : SkipHandler(user)
    \/ \E user \in Actors, reply \in QuizReplies : AnswerHandler(user, reply)
    \/ \E user \in Actors : SkipReplyFails(user)
    \/ \E user \in Actors, reply \in QuizReplies :
          AnswerReplyFails(user, reply)
    \/ \E user \in Actors : SkipSendFails(user)
    \/ \E user \in Actors, reply \in QuizReplies :
          AnswerSendFails(user, reply)

\* Exams in which some replies to the user are not delivered.
SpecUndelivered == InitQuiz /\ [][UndeliveredStep]_vars

JobsNext ==
    \/ \E t \in Triggers, name \in JobNames : RunScheduledJob(t, name)
    \/ \E t \in Triggers, how \in {"result", "raised", "cancelled"} :
          ExecutorReturns(t, how)
    \/ \E t \in Triggers : Notified(t)

\* The triggers of the scheduled jobs.
SpecJobs == Init /\ [][JobsNext]_vars

ChainNext ==
    \/ \E steps \in Chains, images \in BOOLEAN,
          failed \in {"none", "server_start", "create_session",
                      "vision_extraction"} :
          ExecuteChain(steps, images, failed)
    \/ \E len \in OutputLengths : ChainStep(TRUE, len)
    \/ ChainStep(FALSE, 0)

\* Chains are run, one after the other.
SpecChain == Init /\ [][ChainNext]_vars

\* Scores on both sides of the two class borders of the summary.
SummaryReplies == {Reply("score", 2 * points) : points \in 2..5}

SummaryStep ==
    \/ \E user \in Actors, pick \in reviewable, n \in 1..MaxQuestions :
          ExamHandler(user, pick, n)
    \/ \E user \in Actors : SkipHandler(user)
    \/ \E user \in Actors, reply \in SummaryReplies :
          AnswerHandler(user, reply)

\* Exams that are answered and skipped to their summaries, on a card that
\* was never reviewed or on one with a history one short of the cap.
InitSummary ==
    InitQuizOn({NoTrackerFile,
                [state |-> "ok",
                 data |-> TrackerPut(EmptyTracker, "card", "A",
                              SeedItem(FailRun(HISTORY_CAP - 1),
                                       DEFAULT_EASE_FACTOR))]})

SpecSummary == InitSummary /\ [][SummaryStep]_vars

\* What the model may reply to one evaluation.
Replies ==
    {Reply("raises", 0), Reply("no_score", 0)} \cup
    {Reply("score", twice) : twice \in -MaxReplyTwice..MaxReplyTwice}

EvalStep == \E reply \in Replies : Evaluate(reply)

\* Answers are evaluated, one after the other.
SpecEval == Init /\ [][EvalStep]_vars

\* ------------------------------------------------------------------ claims
Ensured == last.op = "ensure_index"
Persisted == Ensured /\ last.outcome = "persisted"
PreManifest == LoadManifest(last.pre_manifest)
PostManifest == LoadManifest(manifest_file)
IndexIds == Range(index_file.ids)
NoDuplicates(ids) == \A i, j \in DOMAIN ids : ids[i] = ids[j] => i = j

\* C1: after every ensure_index call, whatever calls and vault edits came
\* before, the ids in the vector index are the ids of the manifest's chunks
\* map, every one of them is in the chunk_ids of exactly one file record,
\* and no file record lists an id that has no chunk entry.
C1_IndexMatchesManifest ==
    Ensured =>
        /\ IndexIds = DOMAIN PostManifest.chunks
        /\ \A c \in DOMAIN PostManifest.chunks :
              Cardinality({f \in DOMAIN PostManifest.files :
                              c \in IdsOf(PostManifest.files[f])}) = 1
        /\ \A f \in DOMAIN PostManifest.files :
              IdsOf(PostManifest.files[f]) \subseteq DOMAIN PostManifest.chunks

\* C2: once a run was cut off between the write of the index and the write
\* of the manifest, the next run that completes leaves index and manifest in
\* one-to-one correspondence: every vector id has a chunk entry, every chunk
\* entry has a vector, and no id is in the index twice.
C2_RecoversAfterInterruption ==
    (Persisted /\ last.after_crash) =>
        /\ IndexIds = DOMAIN PostManifest.chunks
        /\ NoDuplicates(index_file.ids)

\* C3, as claimed: every chunk a call indexes gets an id strictly greater
\* than every id assigned before (forced rebuilds and lost or corrupt
\* manifests included).
C3_IdsNeverReused ==
    (Ensured /\ last.adds > 0) => last.first_id > last.prev_max

\* C3, amended: the chunks a call indexes get the consecutive ids from the
\* next_id of the manifest the call works from: the stored one, whose
\* next_id is greater than every id it records, or the default with
\* next_id 0 after a forced rebuild or when the stored one is missing or
\* corrupt. A call that persists leaves next_id just above the ids it gave.
RecordedIds(m) ==
    DOMAIN m.chunks \cup UNION {IdsOf(m.files[f]) : f \in DOMAIN m.files}

C3_IdsFreshInManifest ==
    /\ \A c \in RecordedIds(PostManifest) : c < PostManifest.next_id
    /\ (Ensured /\ last.adds > 0) =>
          /\ last.first_id = (IF last.force THEN 0 ELSE PreManifest.next_id)
          /\ ~last.force =>
                \A c \in RecordedIds(PreManifest) : c < last.first_id
          /\ Persisted =>
                /\ PostManifest.next_id = last.first_id + last.adds
                /\ \A c \in last.first_id..(last.first_id + last.adds - 1) :
                      c \in DOMAIN PostManifest.chunks /\ c \in IndexIds

C3_Witness ==
    /\ Persisted /\ ~last.force /\ last.adds = 2
    /\ last.first_id > 0
    /\ last.first_id > last.prev_max
    /\ DOMAIN PreManifest.chunks # {}

\* C4: an ensure_index() that follows a completed ensure_index call with no
\* vault change in between inserts nothing, removes nothing, leaves both
\* files as they were and returns (0, 0, 0).
C4_SecondCallIdle ==
    (Ensured /\ last.streak = 2 /\ ~last.force) =>
        /\ last.adds = 0
        /\ last.removes = 0
        /\ last.ret = <<0, 0, 0>>
        /\ index_file = last.pre_index
        /\ manifest_file = last.pre_manifest

C4_Witness ==
    /\ Ensured /\ last.streak = 2 /\ ~last.force
    /\ Len(index_file.ids) >= 2
    /\ Cardinality(DOMAIN PostManifest.files) = 2

\* C5: when a file that has a record in the manifest is gone from the vault
\* and ensure_index() runs through, the persisted manifest has no record of
\* the file and the persisted index holds none of the ids the record listed.
C5_DeletedFileLeavesIndex ==
    (Persisted /\ ~last.force) =>
        \A f \in DOMAIN PreManifest.files :
            ~vault[f].present =>
                /\ f \notin DOMAIN PostManifest.files
                /\ IdsOf(PreManifest.files[f]) \cap IndexIds = {}

C5_Witness ==
    /\ Persisted /\ ~last.force
    /\ \E f \in DOMAIN PreManifest.files :
          /\ ~vault[f].present
          /\ Len(PreManifest.files[f].chunk_ids) = 2
          /\ IdsOf(PreManifest.files[f]) \subseteq Range(last.pre_index.ids)
    /\ IndexIds # {}

\* C6: when a recorded file's (mtime, size) differs from its record,
\* ensure_index() replaces the record wholesale: none of the old ids is left
\* in the index or in the chunks map, and the record holds the scanned mtime
\* and size and exactly the ids assigned in this call (none, when the file
\* now yields no chunk).
C6_ChangedFileSuperseded ==
    (Persisted /\ ~last.force) =>
        \A f \in DOMAIN PreManifest.files :
            (vault[f].present
             /\ (PreManifest.files[f].mtime # vault[f].mtime
                 \/ PreManifest.files[f].size # vault[f].size)) =>
                /\ IdsOf(PreManifest.files[f]) \cap IndexIds = {}
                /\ IdsOf(PreManifest.files[f]) \cap DOMAIN PostManifest.chunks = {}
                /\ f \in DOMAIN PostManifest.files
                /\ PostManifest.files[f].mtime = vault[f].mtime
                /\ PostManifest.files[f].size = vault[f].size
                /\ Len(PostManifest.files[f].chunk_ids) = vault[f].chunks
                /\ \A c \in IdsOf(PostManifest.files[f]) :
                      c >= PreManifest.next_id

\* C7: a call that cannot get embeddings (no key, or the embedding step
\* gives nothing) leaves the persisted index and the persisted manifest
\* exactly as they were, whatever it had removed in memory before.
C7_AbortLeavesFilesUntouched ==
    (Ensured /\ (last.env = "no_key" \/ last.outcome = "aborted")) =>
        /\ index_file = last.pre_index
        /\ manifest_file = last.pre_manifest

C7_Witness ==
    /\ Ensured /\ last.outcome = "aborted"
    /\ last.removes > 0
    /\ last.ret[3] > 0
    /\ index_file.ids # <<>>

\* C8: neither ensure_index nor semantic_search raises to its caller.
C8_NeverRaises ==
    /\ last.outcome # "raised"
    /\ search.outcome # "raised"

\* C9: every hit semantic_search returns scores at least the floor and is
\* resolved through the current manifest; there are at most top_k hits; the
\* results are the raw ranking of the index, in its order, less the hits
\* under the floor and the hits whose id has no chunk entry.
KeptPositions ==
    {i \in DOMAIN search.raw :
        /\ search.raw[i].score >= SCORE_FLOOR
        /\ search.raw[i].cid \in DOMAIN PostManifest.chunks}

NthKept(j) ==
    CHOOSE i \in KeptPositions :
        Cardinality({x \in KeptPositions : x < i}) = j - 1

C9_HitsAboveFloorAndResolved ==
    search.op = "semantic_search" =>
        /\ Len(search.results) <= search.top_k
        /\ Len(search.results) = Cardinality(KeptPositions)
        /\ \A i \in 1..(Len(search.raw) - 1) :
              search.raw[i].score >= search.raw[i + 1].score
        /\ \A j \in DOMAIN search.results :
              /\ search.results[j].score >= SCORE_FLOOR
              /\ search.results[j].cid \in DOMAIN PostManifest.chunks
              /\ search.results[j].rel_path =
                     PostManifest.chunks[search.results[j].cid].rel_path
              /\ search.results[j].cid = search.raw[NthKept(j)].cid
              /\ search.results[j].score = search.raw[NthKept(j)].score

C9_Witness ==
    /\ search.outcome = "searched"
    /\ Len(search.raw) = 2
    /\ Len(search.results) = 1
    /\ search.results[1].score = SCORE_FLOOR
    /\ \E i \in DOMAIN search.raw :
          /\ search.raw[i].score >= SCORE_FLOOR
          /\ search.raw[i].cid \notin DOMAIN PostManifest.chunks

\* C10: for a score under 3 and any prior state, _sm2_update returns
\* repetitions 0 and interval 1, and the ease factor as it was, raised to
\* 1.3 when it was lower.
C10_FailedReviewResets ==
    (sm2_pc = "done" /\ sm2_arg.score < 3) =>
        /\ sm2_res.repetitions = 0
        /\ sm2_res.interval_days = 1
        /\ sm2_res.ease_factor =
               (IF sm2_arg.ease_factor < MIN_EASE_FACTOR
                THEN MIN_EASE_FACTOR ELSE sm2_arg.ease_factor)

C10_Witness ==
    /\ sm2_pc = "done" /\ sm2_arg.score = 2
    /\ sm2_arg.repetitions > 1
    /\ sm2_arg.interval_days > 1
    /\ sm2_arg.ease_factor < MIN_EASE_FACTOR
    /\ sm2_res.ease_factor = MIN_EASE_FACTOR

\* The record_review call that has just returned, having saved.
Reviewed == review.op = "record_review" /\ review.outcome = "saved"
ReviewPre ==
    LookupItem(LoadTracker(review.pre).data, review.item_type, review.title)
ReviewPost ==
    LookupItem(LoadTracker(tracker_file).data, review.item_type, review.title)
ScoresOf(h) == [i \in DOMAIN h |-> h[i].score]
Sections == {"cards", "encounters"}

\* C11: whatever reviews with scores 0..5 were recorded, on whatever items,
\* no ease_factor stored in the tracker is under 1.3.
C11_StoredEaseAtLeastFloor ==
    \A sec \in Sections : \A t \in DOMAIN tracker_file.data[sec] :
        tracker_file.data[sec][t].ease_factor >= MIN_EASE_FACTOR

C11_Witness ==
    /\ Reviewed /\ review.score = 3
    /\ ReviewPre.ease_factor = MIN_EASE_FACTOR
    /\ ReviewPost.ease_factor = MIN_EASE_FACTOR

\* C12: a passing review (score 3 or more) raises repetitions by exactly 1
\* and sets the interval to 1 from repetitions 0, to 3 from repetitions 1,
\* and to max(1, round(previous interval x new ease)) from there on; the
\* scores 5, 5, 5 on a fresh item give the intervals 1, 3, round(3 x ease).
C12_PassingRunIntervals ==
    (Reviewed /\ review.score >= 3) =>
        /\ ReviewPost.repetitions = ReviewPre.repetitions + 1
        /\ ReviewPost.interval_days =
               (IF ReviewPre.repetitions = 0 THEN 1
                ELSE IF ReviewPre.repetitions = 1 THEN 3
                ELSE Max2(1, RoundHalfEven(
                        ReviewPre.interval_days * ReviewPost.ease_factor, 100)))
        /\ ScoresOf(ReviewPost.history) = <<5>> =>
               ReviewPost.interval_days = 1
        /\ ScoresOf(ReviewPost.history) = <<5, 5>> =>
               ReviewPre.interval_days = 1 /\ ReviewPost.interval_days = 3
        /\ ScoresOf(ReviewPost.history) = <<5, 5, 5>> =>
               /\ ReviewPre.interval_days = 3
               /\ ReviewPost.interval_days =
                      RoundHalfEven(3 * ReviewPost.ease_factor, 100)

C12_Witness ==
    /\ Reviewed
    /\ ScoresOf(ReviewPost.history) = <<5, 5, 5>>
    /\ ReviewPost.repetitions = 3
    /\ ReviewPost.interval_days = 8

C14_OnlyReviewedRecordChanges ==
    Reviewed =>
        LET pre == LoadTracker(review.pre).data
            post == tracker_file.data
            sect == SectionOf(review.item_type)
        IN  \A sec \in Sections :
                /\ DOMAIN post[sec] =
                       DOMAIN pre[sec] \cup
                           (IF sec = sect THEN {review.title} ELSE {})
                /\ \A t \in DOMAIN pre[sec] :
                       (sec # sect \/ t # review.title) =>
                           post[sec][t] = pre[sec][t]

C14_Witness ==
    /\ Reviewed /\ review.item_type = "encounter"
    /\ review.title \notin DOMAIN review.pre.data.encounters
    /\ DOMAIN review.pre.data.cards = {"A", "B"}
    /\ DOMAIN tracker_file.data.cards = {"A", "B"}
    /\ DOMAIN tracker_file.data.encounters = {"A"}

\* C16: a tracker file that is missing, unreadable or malformed loads as
\* the empty tracker without raising, and the record_review that loaded it
\* goes on from there.
C16_DamagedTrackerLoadsEmpty ==
    (review.op = "record_review" /\ review.pre.state # "ok") =>
        /\ review.outcome = "saved"
        /\ tracker_file.data =
               TrackerPut(EmptyTracker, review.item_type, review.title,
                          ReviewedItem(DefaultItem, review.score, review.date))

\* C15: record_review loads, updates and saves with nothing to keep another
\* call out.  When two calls for the same (type, title) have both loaded
\* before either saved, the second save overwrites the first: the history
\* ends up with the second writer's review alone, the first one is lost.
\* When the second call loads after the first has saved, both are kept.
RaceDone == \A c \in Callers : race.call[c].pc = "done"
RaceSameKey ==
    /\ race.call[1].item_type = race.call[2].item_type
    /\ race.call[1].title = race.call[2].title
RaceFirst == race.call[race.writes[1]]
RaceSecond == race.call[race.writes[2]]
RaceEntry(call) == [date |-> call.date, score |-> call.score]
RaceItem(tracker) ==
    LookupItem(tracker, race.call[1].item_type, race.call[1].title)

C15_SecondWriterOverwrites ==
    (RaceDone /\ RaceSameKey) =>
        LET before == RaceItem(RaceFirst.tracker).history
            after == RaceItem(tracker_file.data).history
        IN  IF RaceSecond.loaded_after = 0
            THEN after = CapHistory(Append(before, RaceEntry(RaceSecond)))
            ELSE after = CapHistory(Append(
                             CapHistory(Append(before, RaceEntry(RaceFirst))),
                             RaceEntry(RaceSecond)))

C15_Witness ==
    /\ RaceDone /\ RaceSameKey
    /\ RaceFirst.loaded_after = 0 /\ RaceSecond.loaded_after = 0
    /\ RaceFirst.score = 5 /\ RaceSecond.score = 0
    /\ Len(RaceItem(RaceFirst.tracker).history) = 10
    /\ Len(RaceItem(tracker_file.data).history) = 11
    /\ RaceItem(tracker_file.data).history[11].score = 0

\* C17: get_due_items returns exactly the reviewable items without a tracker
\* record (priority 0) and those whose record has next_review today or
\* earlier (priority 1), each once, and none whose next_review is later; the
\* list ascends by (priority, ease_factor).
DueAsked == due.op = "get_due_items"
DueKey(x) == [type |-> x.type, title |-> x.title]
DueRecorded(item) == item.title \in DOMAIN due.tracker[SectionOf(item.type)]
DueRecord(item) == due.tracker[SectionOf(item.type)][item.title]

QuizMoved ==
    quiz.op \in {"answer", "skip"} /\ quiz.outcome \in {"next", "complete"}
QuizBefore == quiz.pre[quiz.user]
StoreWithout(user) == Restrict(quiz.pre, DOMAIN quiz.pre \ {user})

C19_SkipLeavesTrackerAndTotals ==
    (QuizMoved /\ quiz.op = "skip") =>
        /\ quiz.session.scores = Append(QuizBefore.scores, -1)
        /\ quiz.session.answers = Append(QuizBefore.answers, "[skipped]")
        /\ quiz.session.current_index = QuizBefore.current_index + 1
        /\ tracker_file = quiz.pre_tracker
        /\ ScoredTotal(quiz.session.scores) = ScoredTotal(QuizBefore.scores)
        /\ ScoredMax(quiz.session.scores) = ScoredMax(QuizBefore.scores)

C19_Witness ==
    /\ QuizMoved /\ quiz.op = "skip" /\ quiz.outcome = "complete"
    /\ ScoredTotal(QuizBefore.scores) = 5
    /\ ScoredMax(quiz.session.scores) = 5
    /\ Len(quiz.session.scores) = 2
    /\ tracker_file.state = "ok"

\* C20: when the generation gives no question, /quiz and /exam start no
\* session: the session store, a session under way with its cursor, scores
\* and answers included, and the tracker are as before the command.
C20_NoQuestionsNoChange ==
    (quiz.op \in {"quiz", "exam"} /\ quiz.outcome = "no_questions") =>
        /\ quiz_sessions = quiz.pre
        /\ tracker_file = quiz.pre_tracker

C20_Witness ==
    /\ quiz.op = "exam" /\ quiz.outcome = "no_questions"
    /\ quiz.user \in DOMAIN quiz_sessions
    /\ quiz_sessions[quiz.user].current_index = 1
    /\ quiz_sessions[quiz.user].scores = <<5>>
    /\ tracker_file.state = "ok"

\* C21: a /quiz or /exam that gets at least one question puts a new active
\* session in the user's place, cursor 0, no scores, no answers; what was
\* there before is gone, and an answer is reviewed against the question the
\* cursor of the session in the store points at.
QuizStarted == quiz.op \in {"quiz", "exam"} /\ quiz.outcome = "started"
QuizQuestion == QuizBefore.questions[QuizBefore.current_index + 1]

C21_NewSessionReplacesPrior ==
    /\ QuizStarted =>
           /\ quiz.user \in DOMAIN quiz_sessions
           /\ quiz_sessions = MapPut(quiz.pre, quiz.user, quiz.session)
           /\ quiz.session.active
           /\ quiz.session.current_index = 0
           /\ quiz.session.scores = <<>>
           /\ quiz.session.answers = <<>>
           /\ Len(quiz.session.questions) >= 1
           /\ quiz.calls[quiz.user] = 0
    /\ (QuizMoved /\ quiz.op = "answer") =>
           /\ QuizBefore.current_index = quiz.calls[quiz.user] - 1
           /\ tracker_file =
                  RecordReviewRun(quiz.pre_tracker, QuizQuestion.source_type,
                                  QuizQuestion.source_title,
                                  quiz.session.scores[Len(quiz.session.scores)],
                                  today).file

C21_Witness ==
    /\ QuizStarted
    /\ quiz.user \in DOMAIN quiz.pre
    /\ QuizBefore.current_index = 2
    /\ QuizBefore.scores = <<5, -1>>
    /\ QuizBefore.questions[1].source_type = "card"
    /\ quiz.session.questions[1].source_type = "encounter"
    /\ Len(quiz.session.questions) = 1

\* C22: when the evaluation of an answer fails, the answer gets score 0 and
\* the failure feedback, and counts as answered: 0 is appended to the scores,
\* the review of the question's source is recorded with score 0, which puts
\* its repetitions to 0 and its interval to 1, the cursor moves on by 1 and
\* the next question, or the summary after the last one, follows.
EvaluationFailed ==
    QuizMoved /\ quiz.op = "answer" /\ evaluation.result.failed
QuizItemBefore ==
    LookupItem(LoadTracker(quiz.pre_tracker).data, QuizQuestion.source_type,
               QuizQuestion.source_title)
QuizItemAfter ==
    LookupItem(LoadTracker(tracker_file).data, QuizQuestion.source_type,
               QuizQuestion.source_title)

QuizComplete == QuizMoved /\ quiz.outcome = "complete"
Answered(scores) == {i \in DOMAIN scores : scores[i] # SKIPPED}
RECURSIVE SumOver(_, _)
SumOver(scores, places) ==
    IF places = {} THEN 0
    ELSE LET i == CHOOSE j \in places : TRUE
         IN  scores[i] + SumOver(scores, places \ {i})
SummaryAsTable ==
    LET scores == quiz.session.scores
        rows == quiz.summary.rows
    IN  /\ quiz.summary.kind = "table"
        /\ quiz.summary.total = SumOver(scores, Answered(scores))
        /\ quiz.summary.max_total = 5 * Cardinality(Answered(scores))
        /\ DOMAIN rows = DOMAIN quiz.session.questions
        /\ DOMAIN rows = DOMAIN scores
        /\ \A i \in DOMAIN rows :
               /\ rows[i] = "pass" <=> scores[i] \in {4, 5}
               /\ rows[i] = "partial" <=> scores[i] = 3
               /\ rows[i] = "fail" <=> scores[i] \in 0..2
               /\ rows[i] = "skipped" <=> scores[i] = SKIPPED

C23_SummaryTotalsAndClasses == QuizComplete => SummaryAsTable

\* C23 as it holds: that is the summary of a session with at least one
\* answered question; when every question was skipped the summary says so
\* and gives no total, no maximum and no classes.
C23_SummaryOfAnsweredSession ==
    QuizComplete =>
        IF Answered(quiz.session.scores) # {}
        THEN SummaryAsTable
        ELSE quiz.summary = [NoSummary EXCEPT !.kind = "all_skipped"]

C23_Witness ==
    /\ QuizComplete
    /\ quiz.session.scores = <<3, SKIPPED, 4>>
    /\ quiz.summary.total = 7
    /\ quiz.summary.max_total = 10
    /\ quiz.summary.rows = <<"partial", "skipped", "pass">>

\* C24: every score of a session is the skip mark -1 or a whole number from
\* 0 to 5, and every score given to record_review is a whole number from 0
\* to 5.  The answer handler appends the score evaluate_answer returns as it
\* is and gives the same value to record_review, so this is the claim on
\* what evaluate_answer returns: a whole number of points from 0 to 5.
C24_ScoresWholeInRange ==
    /\ evaluation.result.twice % 2 = 0
    /\ evaluation.result.twice \div 2 \in 0..5

\* C25: a card gives no reviewable item when nothing is left of its Idea
\* section, the lines after '## Idea' up to the next level-2 heading without
\* the comment lines and the blank ones, or when that text holds
\* '[illegible]'; otherwise it gives one, and get_reviewable_items lists
\* exactly the cards that give one.
IdeaStart(content) ==
    IF \E i \in DOMAIN content : content[i] = "idea"
    THEN CHOOSE i \in DOMAIN content :
             /\ content[i] = "idea"
             /\ \A j \in 1..(i - 1) : content[j] # "idea"
    ELSE Len(content) + 1
IdeaLines(content) ==
    {i \in DOMAIN content :
        /\ i > IdeaStart(content)
        /\ content[i] \in {"text", "illegible"}
        /\ \A j \in (IdeaStart(content) + 1)..i : content[j] # "h2"}
Legible(content) ==
    /\ IdeaLines(content) # {}
    /\ \A i \in IdeaLines(content) : content[i] # "illegible"

C25_CardNeedsLegibleIdea ==
    /\ card.op = "extract" =>
           \A title \in DOMAIN card.cards :
               /\ card.result.found <=> Legible(card.cards[title])
               /\ card.result.found =>
                      /\ Len(card.result.idea) =
                             Cardinality(IdeaLines(card.cards[title]))
                      /\ \A i \in DOMAIN card.result.idea :
                             card.result.idea[i] = "text"
    /\ card.op = "list" =>
           card.listed = {title \in DOMAIN card.cards :
                              Legible(card.cards[title])}

C25_Witness ==
    /\ card.op = "list"
    /\ card.cards["A"] = <<"idea", "text", "illegible">>
    /\ card.cards["B"] = <<"idea", "text">>
    /\ card.listed = {"B"}

\* C26: the steps of a chain are sent to their agents in the order of the
\* chain, and each step after the first gets the output of the step before
\* it; when a step fails no later step is sent, and the result has success
\* false, as steps_completed the number of steps that finished, as
\* failed_step the agent of the failing step and as step_outputs the outputs
\* of the finished steps in their order; success is true only when
\* steps_completed is steps_total.
ChainReturned == chain.pc = "done"
StepFailed ==
    ChainReturned /\ chain.replies # <<>>
                  /\ ~chain.replies[Len(chain.replies)].ok
Forwarded(output) ==
    IF output.len > MAX_STEP_OUTPUT_CHARS
    THEN [by |-> output.by, len |-> MAX_STEP_OUTPUT_CHARS, truncated |-> TRUE]
    ELSE output

C26_StepsInOrderStopAtFailure ==
    /\ Len(chain.sent) <= Len(chain.steps)
    /\ Len(chain.replies) = Len(chain.sent)
    /\ \A i \in DOMAIN chain.sent :
           /\ chain.sent[i].agent = chain.steps[i]
           /\ i > 1 => chain.replies[i - 1].ok
           /\ (i > 1 /\ chain.replies[i - 1].output.len > 0) =>
                  /\ chain.sent[i].previous.agent = chain.steps[i - 1]
                  /\ chain.sent[i].previous.output =
                         Forwarded(chain.replies[i - 1].output)
                  /\ chain.sent[i].previous.output.by = i - 1
           /\ (i = 1 \/ chain.replies[Max2(i - 1, 1)].output.len = 0) =>
                  chain.sent[i].previous = NoSection
    /\ StepFailed =>
           LET finished == Len(chain.sent) - 1
           IN  /\ ~chain.result.success
               /\ chain.result.steps_completed = finished
               /\ chain.result.steps_total = Len(chain.steps)
               /\ chain.result.failed_step = chain.steps[finished + 1]
               /\ chain.result.step_outputs =
                      [i \in 1..finished |->
                          [agent |-> chain.steps[i],
                           output |-> chain.replies[i].output]]
    /\ (ChainReturned /\ chain.result.success) =>
           /\ chain.result.steps_completed = chain.result.steps_total
           /\ Len(chain.sent) = chain.result.steps_total
           /\ \A i \in DOMAIN chain.replies : chain.replies[i].ok

C26_Witness ==
    /\ StepFailed
    /\ Len(chain.steps) = 3
    /\ Len(chain.sent) = 2
    /\ chain.result.steps_completed = 1
    /\ chain.result.failed_step = "connector"
    /\ chain.steps[3] = "librarian"
    /\ chain.sent[2].previous.output.truncated

\* C27: in every session, after each answer or skip call has run, to its
\* end or up to a reply that failed, the scores and the answers are as many
\* as the cursor says, and never more than the questions.
ListsFollowCursor(s) ==
    /\ Len(s.scores) = Len(s.answers)
    /\ Len(s.scores) = s.current_index
    /\ Len(s.scores) <= Len(s.questions)

C27_ListsFollowCursor ==
    /\ \A u \in DOMAIN quiz_sessions : ListsFollowCursor(quiz_sessions[u])
    /\ quiz.op \in {"answer", "skip"} /\ quiz.outcome # "no_quiz" =>
           ListsFollowCursor(quiz.session)

\* C28: each answer that is not a skip records one review of the source of
\* its question, so the k answers of a session over one source apply the
\* update k times in a row to the one record of that source: its history
\* grows by k up to the cap, k passing answers raise its repetitions by k,
\* and skips apply nothing.
RECURSIVE Replayed(_, _, _)
Replayed(item, scores, date) ==
    IF scores = <<>> THEN item
    ELSE Replayed(IF Head(scores) = SKIPPED THEN item
                  ELSE ReviewedItem(item, Head(scores), date),
                  Tail(scores), date)
SessionSource ==
    [type |-> quiz.session.questions[1].source_type,
     title |-> quiz.session.questions[1].source_title]
SessionBase == quiz.base[quiz.user]
SourceItem(tf) ==
    LookupItem(LoadTracker(tf).data, SessionSource.type, SessionSource.title)

AnswerReviewed == QuizMoved /\ quiz.op = "answer"
TrackerBefore == LoadTracker(quiz.pre_tracker).data
TrackerAfter == LoadTracker(tracker_file).data
FiledUnder(sec, title) ==
    /\ title \in DOMAIN TrackerAfter[sec]
    /\ Len(TrackerAfter[sec][title].history) >= 1
    /\ TrackerAfter[sec][title].last_reviewed = today
    /\ \A other \in Sections : \A t \in DOMAIN TrackerAfter[other] :
           (other # sec \/ t # title) =>
               /\ t \in DOMAIN TrackerBefore[other]
               /\ TrackerAfter[other][t] = TrackerBefore[other][t]
    /\ \A other \in Sections :
           DOMAIN TrackerBefore[other] \subseteq DOMAIN TrackerAfter[other]

LockHeld(name) == name \in DOMAIN jobs.locks /\ jobs.locks[name]

C30_NoOverlapPerJob ==
    /\ \A name \in JobNames :
           /\ Cardinality(Running(name)) <= 1
           /\ LockHeld(name) <=> Running(name) # {}
    /\ jobs.last.op = "trigger" =>
           /\ jobs.last.outcome = "skipped" <=> jobs.last.busy
           /\ jobs.last.outcome = "started" <=> ~jobs.last.busy
           /\ jobs.last.outcome = "skipped" =>
                  /\ jobs.executions = jobs.last.executions
                  /\ jobs.task[jobs.last.trigger] = IdleTask
           /\ jobs.last.outcome = "started" =>
                  /\ jobs.executions = jobs.last.executions + 1
                  /\ Running(jobs.last.name) = {jobs.last.trigger}
    /\ jobs.last.op = "ended" =>
           /\ ~LockHeld(jobs.last.name)
           /\ Running(jobs.last.name) = {}

C30_Witness ==
    /\ jobs.last.op = "trigger" /\ jobs.last.outcome = "skipped"
    /\ jobs.last.name = "daily_quiz"
    /\ Running("daily_quiz") # {}
    /\ Running("weekly_connections") # {}
    /\ jobs.executions = 3
====
